---- MODULE Spec2Model ----
(***************************************************************************)
(* Model of services/simulator.py (class SimuladorPeriodos): aggregation   *)
(* of monthly contribution bases, projection up to retirement, backward    *)
(* walk with gap imputation, revaluation, statistics and the dual          *)
(* reform / prereform computation.                                         *)
(*                                                                         *)
(* Representation                                                          *)
(*   - an amount is an integer number of thousandths of a euro, so that    *)
(*     round(x, 2) is a real rounding (to a multiple of 10); decimal       *)
(*     arithmetic is exact, ties go to the even cent;                      *)
(*   - a "mm/AAAA" string is the record [mm, yyyy, pad]; pad = FALSE is    *)
(*     the spelling without the leading zero ("1/2025"), which strptime    *)
(*     accepts and strftime never produces;                                *)
(*   - a datetime (always the first day of a month) is the month index     *)
(*     12 * year + (month - 1); relativedelta(months = k) adds k;          *)
(*   - an index is in thousandths (1.035 is 1035), a divisor in            *)
(*     hundredths (350 is 35000, 352.33 is 35233);                         *)
(*   - a dict is a sequence of entries in insertion order;                 *)
(*   - a call that raises yields [ok |-> FALSE].                           *)
(***************************************************************************)
EXTENDS Integers, Sequences, FiniteSets, TLC

VARIABLES
    parametros_computo,        \* config cache: sequence of [anyo, bases_incluidas, periodo_meses, divisor_base_reguladora]
    indices_revalorizacion,    \* config cache: function from "mm/AAAA" keys to index
    topes_cotizacion,          \* config cache: sequence of [anyo, base_minima_mensual, base_maxima_mensual]
    estado,                    \* "nuevo" before __init__, "listo" after it returned, "error" after it raised
    regimen_acceso,            \* self.regimen_acceso
    sexo,                      \* self.sexo
    contador_lagunas,          \* self.contador_lagunas
    cumple_condiciones_hombre, \* self.cumple_condiciones_hombre
    fecha_jubilacion,          \* self.fecha_jubilacion
    bases,                     \* self.bases
    parametros_anyo_jubilacion,\* self.parametros_año_jubilacion
    bases_procesadas,          \* self.bases_procesadas
    llamada,                   \* the last method call: [op, arg, ok, res]
    peticion,                  \* the HTTP request the API is handling, and its response
    archivos_temporales        \* the names of the temporary files on disk

vars == <<parametros_computo, indices_revalorizacion, topes_cotizacion, estado,
          regimen_acceso, sexo, contador_lagunas,
          cumple_condiciones_hombre, fecha_jubilacion, bases,
          parametros_anyo_jubilacion, bases_procesadas, llamada,
          peticion, archivos_temporales>>

config == <<parametros_computo, indices_revalorizacion, topes_cotizacion>>

fields == <<regimen_acceso, sexo, contador_lagunas, cumple_condiciones_hombre,
            fecha_jubilacion, bases, parametros_anyo_jubilacion>>

servidor == <<peticion, archivos_temporales>>

----------------------------------------------------------------------------
(* Bounds of the model *)

MaxBases == 2          \* longest list of input bases
MaxLaguna == 100       \* largest ordinal passed to calcular_base_laguna directly
MaxTemporales == 2     \* most temporary files on disk at once

(* Program constants *)

BasesPrereforma == 300       \* window of the prereform computation
DivisorPrereforma == 350     \* divisor of the prereform computation
MesesNoRevalorizados == 24   \* months before retirement kept without revaluation
MesesPromedio == 5           \* relativedelta(months=5): span of the 6-month average
LagunasFase1 == 48           \* gaps imputed at 100% for everybody
LagunasFase2 == 60           \* DT 41: 100% up to this ordinal
LagunasFase3 == 84           \* DT 41: 80% up to this ordinal

(* Optional value: None is <<>>, a present value v is <<v>> *)
None == <<>>
Some(v) == <<v>>

----------------------------------------------------------------------------
(* Arithmetic *)

Abs(x) == IF x < 0 THEN 0 - x ELSE x

(* a * b / d rounded to the nearest integer, ties to even; a, b >= 0, d > 0. *)
(* The product is split so that no intermediate exceeds 32 bits.           *)
MulDivRound(a, b, d) ==
    LET qa == a \div d
        n  == (a % d) * b
        q  == qa * b + (n \div d)
        r  == n % d
    IN  IF 2 * r < d THEN q
        ELSE IF 2 * r > d THEN q + 1
        ELSE IF q % 2 = 0 THEN q ELSE q + 1

(* round(x, 2) of an amount in thousandths *)
round2(x) == 10 * MulDivRound(x, 1, 10)

(* sum(s), added up by halves to keep the evaluation shallow *)
RECURSIVE sum_rango(_, _, _)
sum_rango(s, lo, hi) ==
    IF lo > hi THEN 0
    ELSE IF lo = hi THEN s[lo]
    ELSE LET mid == (lo + hi) \div 2
         IN  sum_rango(s, lo, mid) + sum_rango(s, mid + 1, hi)

sum(s) == sum_rango(s, 1, Len(s))

(* [f(x) for x in s] and [x for x in s if p(x)] *)
(* [b.base for b in s] *)
lista_de_bases(s) == [i \in 1..Len(s) |-> s[i].base]

(* [b.empresa for b in s] *)
lista_de_empresas(s) == [i \in 1..Len(s) |-> s[i].empresa]

----------------------------------------------------------------------------
(* Dates *)

(* datetime.strptime(s, "%m/%Y"): both "01/2025" and "1/2025" parse *)
strptime(s) == 12 * s.yyyy + (s.mm - 1)

(* d.strftime("%m/%Y"): always zero padded *)
strftime(d) == [yyyy |-> d \div 12, mm |-> (d % 12) + 1, pad |-> TRUE]

(* d.year *)
year(d) == d \div 12

(* int(fecha.split("/")[1]) *)
split_anyo(s) == s.yyyy

(* str.upper() on the strings the model passes in *)
upper(s) ==
    CASE s = "general" -> "GENERAL"
      [] s = "autonomo" -> "AUTONOMO"
      [] s = "masculino" -> "MASCULINO"
      [] s = "femenino" -> "FEMENINO"
      [] OTHER -> s

----------------------------------------------------------------------------
(* models/bases_cotizacion.py *)

(* BaseCotizacion.convertir_base_a_float: round(float(v), 2) *)
convertir_base_a_float(v) == round2(v)

(* BaseCotizacion(mes_anyo=..., base=..., empresa=..., regimen=...) *)
BaseCotizacion(mes_anyo, base, empresa, regimen) ==
    [base |-> convertir_base_a_float(base),
     empresa |-> empresa,
     mes_anyo |-> mes_anyo,
     regimen |-> regimen,
     metadatos_pluriactividad |-> None]

----------------------------------------------------------------------------
(* Dictionaries keyed by year, kept as sequences of entries *)

keys(tabla) == [i \in 1..Len(tabla) |-> tabla[i].anyo]

contains(tabla, anyo) == \E i \in 1..Len(tabla) : tabla[i].anyo = anyo

getitem(tabla, anyo) == tabla[CHOOSE i \in 1..Len(tabla) : tabla[i].anyo = anyo]

(* sorted(s) for a sequence of distinct integers *)
sorted(s) ==
    [i \in 1..Len(s) |->
        CHOOSE x \in {s[j] : j \in 1..Len(s)} :
            Cardinality({j \in 1..Len(s) : s[j] < x}) = i - 1]

(* min(s, key=lambda x: x - anyo): the distance taken with its sign *)
min_abs_con_signo(s, anyo) ==
    s[CHOOSE i \in 1..Len(s) :
        \A j \in 1..Len(s) :
            /\ s[i] - anyo <= s[j] - anyo
            /\ (s[j] - anyo = s[i] - anyo => i <= j)]

(* min(s, key=lambda x: abs(x - anyo)): the first element at minimal distance *)
min_abs(s, anyo) ==
    s[CHOOSE i \in 1..Len(s) :
        \A j \in 1..Len(s) :
            /\ Abs(s[i] - anyo) <= Abs(s[j] - anyo)
            /\ (Abs(s[j] - anyo) = Abs(s[i] - anyo) => i <= j)]

(* list.sort(key=lambda x: strptime(x.mes_anyo), reverse=True): a stable sort, *)
(* latest first; a list already in that order is returned as it is           *)
ordenar_por_fecha(s) ==
    LET clave(i) == strptime(s[i].mes_anyo)
        rango(j) == Cardinality({k \in 1..Len(s) : clave(k) > clave(j)})
                    + Cardinality({k \in 1..(j - 1) : clave(k) = clave(j)}) + 1
    IN  IF \A i \in 1..(Len(s) - 1) : clave(i) >= clave(i + 1) THEN s
        ELSE [i \in 1..Len(s) |-> s[CHOOSE j \in 1..Len(s) : rango(j) = i]]

----------------------------------------------------------------------------
(* SimuladorPeriodos: reference data lookups *)

Error == [ok |-> FALSE, val |-> "error"]
Ok(v) == [ok |-> TRUE, val |-> v]

(* raise ValueError(mensaje) *)
ErrorDe(mensaje) == [ok |-> FALSE, val |-> mensaje]

(* get_parametros_computo: raises when the table is empty (min of nothing) *)
get_parametros_computo(self) ==
    LET anyo_jubilacion == year(self.fecha_jubilacion) IN
    IF ~ contains(self.parametros_computo, anyo_jubilacion)
    THEN IF self.parametros_computo = <<>> THEN Error
         ELSE LET anyos_disponibles == sorted(keys(self.parametros_computo))
                  anyo_mas_cercano == min_abs(anyos_disponibles, anyo_jubilacion)
                  parametros == getitem(self.parametros_computo, anyo_mas_cercano)
              IN  Ok([bases_incluidas |-> parametros.bases_incluidas,
                      periodo_meses |-> parametros.periodo_meses,
                      divisor_base_reguladora |-> parametros.divisor_base_reguladora])
    ELSE LET parametros == getitem(self.parametros_computo, anyo_jubilacion)
         IN  Ok([bases_incluidas |-> parametros.bases_incluidas,
                 periodo_meses |-> parametros.periodo_meses,
                 divisor_base_reguladora |-> parametros.divisor_base_reguladora])

(* _obtener_topes_año raising for a year the table does not have *)
obtener_topes_anyo_estricto(self, anyo) ==
    IF contains(self.topes_cotizacion, anyo)
    THEN Ok(getitem(self.topes_cotizacion, anyo))
    ELSE Error

(* _obtener_topes_año *)
obtener_topes_anyo(self, anyo) ==
    IF contains(self.topes_cotizacion, anyo)
    THEN Ok(getitem(self.topes_cotizacion, anyo))
    ELSE IF self.topes_cotizacion = <<>> THEN Error
         ELSE LET anyos_disponibles == keys(self.topes_cotizacion)
                  anyo_mas_cercano == min_abs(anyos_disponibles, anyo)
              IN  Ok(getitem(self.topes_cotizacion, anyo_mas_cercano))

(* _obtener_base_minima_año *)
obtener_base_minima_anyo(self, anyo) ==
    LET topes == obtener_topes_anyo(self, anyo) IN
    IF ~ topes.ok THEN Error ELSE Ok(topes.val.base_minima_mensual)

----------------------------------------------------------------------------
(* SimuladorPeriodos: ingestion *)

(* max(bases_mes, key=lambda x: x["base"]) *)
max_base_primero(bases_mes) == bases_mes[1]

(* max(bases_mes, key=lambda x: x["base"]): the first record with the largest base *)
max_base(bases_mes) ==
    bases_mes[CHOOSE i \in 1..Len(bases_mes) :
        \A j \in 1..Len(bases_mes) :
            /\ bases_mes[i].base >= bases_mes[j].base
            /\ (bases_mes[j].base = bases_mes[i].base => i <= j)]

(* if suma_bruta < tope_minimo *)
bajo_tope_minimo_o_igual(suma_bruta, tope_minimo) == suma_bruta <= tope_minimo

bajo_tope_minimo(suma_bruta, tope_minimo) == suma_bruta < tope_minimo

(* _agregar_bases_mes: the aggregate of one month, given the caps of its year *)
agregacion(bases_mes, fecha, suma_bruta, tope_minimo, tope_maximo) ==
    [mes_anyo |-> fecha,
     bases_individuales |-> bases_mes,
     base_agregada_bruta |-> round2(suma_bruta),
     base_agregada_final |-> round2(IF bajo_tope_minimo(suma_bruta, tope_minimo) THEN tope_minimo
                                    ELSE IF suma_bruta > tope_maximo THEN tope_maximo
                                    ELSE suma_bruta),
     aplicado_tope |-> IF bajo_tope_minimo(suma_bruta, tope_minimo) THEN "minimo"
                       ELSE IF suma_bruta > tope_maximo THEN "maximo"
                       ELSE "ninguno",
     regimen_principal |-> max_base(bases_mes).regimen,
     empresa_agregada |-> "PLURIACTIVIDAD_" \o ToString(Len(bases_mes)) \o "_EMPRESAS",
     empresas_detalle |-> lista_de_empresas(bases_mes)]

(* _agregar_bases_mes: the caps of the year, then the aggregate *)
agregar_bases_mes(self, bases_mes, fecha) ==
    LET tope_min == obtener_base_minima_anyo(self, split_anyo(fecha))
        topes == obtener_topes_anyo(self, split_anyo(fecha))
    IN  IF ~ tope_min.ok \/ ~ topes.ok THEN Error
        ELSE Ok(agregacion(bases_mes, fecha, sum(lista_de_bases(bases_mes)),
                           tope_min.val, topes.val.base_maxima_mensual))

(* _validar_coherencia_pluriactividad *)
validar_coherencia_pluriactividad(self, bases_mes) == TRUE

(* if base_data.get("base", 0) < 0 *)
es_base_negativa_nunca(base_data) == FALSE

es_base_negativa(base_data) == base_data.base < 0

(* _procesar_bases_extraidas, step 1: validate and group by mes_anyo *)
RECURSIVE agrupar_por_mes(_, _)
agrupar_por_mes(lista, bases_por_mes) ==
    IF lista = <<>> THEN Ok(bases_por_mes)
    ELSE LET base_data == Head(lista)
             mes_anyo == base_data.mes_anyo
             pos == {i \in 1..Len(bases_por_mes) : bases_por_mes[i].mes_anyo = mes_anyo}
         IN  IF es_base_negativa(base_data) THEN ErrorDe("Error procesando base")
             ELSE IF pos = {}
             THEN agrupar_por_mes(Tail(lista),
                      Append(bases_por_mes, [mes_anyo |-> mes_anyo, bases_mes |-> <<base_data>>]))
             ELSE agrupar_por_mes(Tail(lista),
                      [bases_por_mes EXCEPT ![CHOOSE i \in pos : TRUE].bases_mes =
                           Append(@, base_data)])

(* _procesar_bases_extraidas, step 2: the record of a month with several bases *)
base_agregada_de(mes_anyo, resultado_agregacion) ==
    [BaseCotizacion(mes_anyo,
                    resultado_agregacion.base_agregada_final,
                    resultado_agregacion.empresa_agregada,
                    resultado_agregacion.regimen_principal)
        EXCEPT !.metadatos_pluriactividad = Some(
            [bases_individuales |-> resultado_agregacion.bases_individuales,
             empresas_detalle |-> resultado_agregacion.empresas_detalle,
             es_pluriactividad |-> TRUE,
             base_bruta |-> resultado_agregacion.base_agregada_bruta,
             tope_aplicado |-> resultado_agregacion.aplicado_tope])]

(* if len(bases_mes) == 1 *)
una_sola_base_nunca(bases_mes) == Len(bases_mes) = 0

una_sola_base(bases_mes) == Len(bases_mes) = 1

(* _procesar_bases_extraidas, step 2: one record per key *)
procesar_mes(self, grupo) ==
    IF una_sola_base(grupo.bases_mes)
    THEN Ok(BaseCotizacion(grupo.bases_mes[1].mes_anyo, grupo.bases_mes[1].base,
                           grupo.bases_mes[1].empresa, grupo.bases_mes[1].regimen))
    ELSE IF ~ validar_coherencia_pluriactividad(self, grupo.bases_mes) THEN Error
    ELSE LET r == agregar_bases_mes(self, grupo.bases_mes, grupo.mes_anyo) IN
         IF ~ r.ok THEN Error
         ELSE Ok(base_agregada_de(grupo.mes_anyo, r.val))

(* _procesar_bases_extraidas, step 3: the sort, latest first; rs are the results of step 2 *)
ordenar_bases_procesadas(rs) ==
    IF \E i \in 1..Len(rs) : ~ rs[i].ok THEN Error
    ELSE Ok(ordenar_por_fecha([i \in 1..Len(rs) |-> rs[i].val]))

(* _procesar_bases_extraidas, step 2 over the groups g of step 1 *)
procesar_grupos(self, g) ==
    IF ~ g.ok THEN g
    ELSE ordenar_bases_procesadas([i \in 1..Len(g.val) |-> procesar_mes(self, g.val[i])])

(* _procesar_bases_extraidas *)
procesar_bases_extraidas(self, bases_extraidas) ==
    procesar_grupos(self, agrupar_por_mes(bases_extraidas.bases.items, <<>>))

(* The values bases_extraidas can be: a dict holding under "bases" a list or *)
(* something else, a dict without that key, or something that is no dict    *)
Lista(s) == [items |-> s, tipo |-> "list"]
NoLista == [items |-> <<>>, tipo |-> "str"]
Dict(b) == [bases |-> b, tipo |-> "dict", claves |-> {"bases"}]
DictSinBases == [bases |-> NoLista, tipo |-> "dict", claves |-> {}]
NoDict == [bases |-> NoLista, tipo |-> "str", claves |-> {}]

(* whether datetime.strptime(s, "%m/%Y") returns: a month 1..12 of one or   *)
(* two digits and a year of four digits, so that "2025/06" and "13/2025"    *)
(* raise ValueError                                                         *)
strptime_ok(s) == s.mm \in 1..12 /\ s.yyyy \in 1000..9999

(* _validar_datos_entrada: the shape, date and regime checks, in their order *)
validar_datos_entrada(self, bases_extraidas, fecha) ==
    IF bases_extraidas.tipo # "dict"
    THEN ErrorDe("bases_extraidas debe ser un diccionario")
    ELSE IF "bases" \notin bases_extraidas.claves
    THEN ErrorDe("bases_extraidas debe contener la clave 'bases'")
    ELSE IF bases_extraidas.bases.tipo # "list"
    THEN ErrorDe("bases debe ser una lista")
    ELSE IF bases_extraidas.bases.items = <<>>
    THEN ErrorDe("La lista de bases no puede estar vacia")
    ELSE IF ~ strptime_ok(fecha)
    THEN ErrorDe("Formato de fecha invalido")
    ELSE IF self.regimen_acceso \notin {"GENERAL", "AUTONOMO"}
    THEN ErrorDe("Regimen invalido")
    ELSE Ok(TRUE)

(* _procesar_fecha_jubilacion *)
procesar_fecha_jubilacion(fecha) == strptime(fecha)

----------------------------------------------------------------------------
(* SimuladorPeriodos: projection *)

(* max(self.bases, key=lambda x: strptime(x.mes_anyo)): the first latest record *)
max_fecha(bs) ==
    bs[CHOOSE i \in 1..Len(bs) :
        \A j \in 1..Len(bs) :
            /\ strptime(bs[i].mes_anyo) >= strptime(bs[j].mes_anyo)
            /\ (strptime(bs[j].mes_anyo) = strptime(bs[i].mes_anyo) => i <= j)]

(* fecha_limite_simulacion = self.fecha_jubilacion - relativedelta(months=1) *)
fecha_limite_simulacion_jubilacion(self) == self.fecha_jubilacion

fecha_limite_simulacion(self) == self.fecha_jubilacion - 1

(* fecha_actual = fecha_ultima_base + relativedelta(months=1) *)
fecha_inicial_simulacion_ultima_base(fecha_ultima_base) == fecha_ultima_base

fecha_inicial_simulacion(fecha_ultima_base) == fecha_ultima_base + 1

(* if fecha_base >= fecha_ultima_base - relativedelta(months=5) *)
es_base_reciente_seis(fecha_base, fecha_ultima_base) ==
    fecha_base >= fecha_ultima_base - (MesesPromedio + 1)

es_base_reciente(fecha_base, fecha_ultima_base) ==
    fecha_base >= fecha_ultima_base - MesesPromedio

(* simular_periodo_futuro *)
simular_periodo_futuro(self) ==
    IF self.bases = <<>> THEN <<>>
    ELSE
    LET ultima_base == max_fecha(self.bases)
        fecha_ultima_base == strptime(ultima_base.mes_anyo)
    IN  IF self.fecha_jubilacion <= fecha_ultima_base THEN <<>>
        ELSE
        LET recientes == SelectSeq(self.bases,
                LAMBDA b : es_base_reciente(strptime(b.mes_anyo), fecha_ultima_base))
            bases_recientes == lista_de_bases(recientes)
            \* round(promedio, 2), promedio = sum / len
            promedio_redondeado ==
                IF bases_recientes = <<>> THEN round2(ultima_base.base)
                ELSE 10 * MulDivRound(sum(bases_recientes), 1, 10 * Len(bases_recientes))
            fecha_inicial == fecha_inicial_simulacion(fecha_ultima_base)
            fecha_limite == fecha_limite_simulacion(self)
            n == IF fecha_limite >= fecha_inicial THEN fecha_limite - fecha_inicial + 1 ELSE 0
        IN  [i \in 1..n |->
                BaseCotizacion(strftime(fecha_inicial + (i - 1)), promedio_redondeado,
                               "SIMULADA", self.regimen_acceso)]

----------------------------------------------------------------------------
(* SimuladorPeriodos: gap imputation and the backward walk *)

(* if self.regimen_acceso == "AUTONOMO" *)
es_autonomo_plural(self) == self.regimen_acceso = "AUTONOMOS"

es_autonomo(self) == self.regimen_acceso = "AUTONOMO"

(* aplica_dt41 *)
aplica_dt41_todos(self) ==
    \/ self.sexo = "FEMENINO"
    \/ self.sexo = "MASCULINO"

aplica_dt41(self) ==
    \/ self.sexo = "FEMENINO"
    \/ (self.sexo = "MASCULINO" /\ self.cumple_condiciones_hombre)

(* calcular_base_laguna: the tiers with the first one as long as the second *)
base_segun_tramo_fase2(self, n_laguna, base_min) ==
    IF n_laguna <= LagunasFase2 THEN base_min
    ELSE IF aplica_dt41(self)
    THEN IF n_laguna <= LagunasFase3 THEN 10 * MulDivRound(base_min, 8, 100)
         ELSE 10 * MulDivRound(base_min, 5, 100)
    ELSE 10 * MulDivRound(base_min, 5, 100)

(* calcular_base_laguna: the tiers, base_min being the minimum base of the year *)
base_segun_tramo(self, n_laguna, base_min) ==
    IF n_laguna <= LagunasFase1 THEN base_min
    ELSE IF aplica_dt41(self)
    THEN IF n_laguna <= LagunasFase2 THEN base_min
         ELSE IF n_laguna <= LagunasFase3 THEN 10 * MulDivRound(base_min, 8, 100)
         ELSE 10 * MulDivRound(base_min, 5, 100)
    ELSE 10 * MulDivRound(base_min, 5, 100)

(* calcular_base_laguna *)
calcular_base_laguna(self, fecha_laguna, n_laguna) ==
    IF es_autonomo(self) THEN Ok(0)
    ELSE LET bm == obtener_base_minima_anyo(self, year(strptime(fecha_laguna)))
         IN  IF ~ bm.ok THEN Error
             ELSE Ok(base_segun_tramo(self, n_laguna, bm.val))

(* bases_dict = {}; for base in bases_todas[lo..hi]: bases_dict[base.mes_anyo] = base. *)
(* A later base replaces an earlier one with the same key (f @@ g keeps f).  *)
RECURSIVE dict_rango(_, _, _)
dict_rango(bases_todas, lo, hi) ==
    IF lo > hi THEN <<>>
    ELSE IF lo = hi THEN bases_todas[lo].mes_anyo :> bases_todas[lo]
    ELSE LET mid == (lo + hi) \div 2
         IN  dict_rango(bases_todas, mid + 1, hi) @@ dict_rango(bases_todas, lo, mid)

construir_dict(bases_todas) == dict_rango(bases_todas, 1, Len(bases_todas))

(* the number of months of the walk *)
bases_incluidas_de_reforma(self, usar_parametros_antiguos) ==
    self.parametros_anyo_jubilacion.bases_incluidas

bases_incluidas_de(self, usar_parametros_antiguos) ==
    IF usar_parametros_antiguos THEN BasesPrereforma
    ELSE self.parametros_anyo_jubilacion.bases_incluidas

(* one iteration of the while loop of obtener_bases_periodo_computo; st is   *)
(* the loop state, left as it is once calcular_base_laguna has raised        *)
paso(self, bases_dict, st) ==
    IF ~ st.ok THEN st
    ELSE
    LET mes_anyo == strftime(st.fecha_actual) IN
    IF mes_anyo \in DOMAIN bases_dict
    THEN [st EXCEPT !.bases_periodo = Append(@, bases_dict[mes_anyo]),
                    !.ordinales = Append(@, 0),
                    !.fecha_actual = @ - 1,
                    !.meses_incluidos = @ + 1]
    ELSE
    LET contador == st.contador_lagunas_local + 1
        base_calculada == calcular_base_laguna(self, mes_anyo, contador)
    IN  IF ~ base_calculada.ok THEN [st EXCEPT !.ok = FALSE]
        ELSE [st EXCEPT !.contador_lagunas_local = contador,
                        !.bases_periodo = Append(@,
                            BaseCotizacion(mes_anyo, base_calculada.val, "LAGUNA",
                                           self.regimen_acceso)),
                        !.ordinales = Append(@, contador),
                        !.fecha_actual = @ - 1,
                        !.meses_incluidos = @ + 1]

(* n iterations of the loop, one after the other (split in halves to keep  *)
(* the evaluation shallow)                                                  *)
RECURSIVE iterar(_, _, _, _)
iterar(self, bases_dict, st, n) ==
    IF n <= 0 THEN st
    ELSE IF n = 1 THEN paso(self, bases_dict, st)
    ELSE LET mitad == iterar(self, bases_dict, st, n \div 2)
         IN  IF ~ mitad.ok THEN mitad
             ELSE iterar(self, bases_dict, mitad, n - (n \div 2))

(* while meses_incluidos < bases_incluidas *)
recorrer(self, bases_dict, bases_incluidas, st) ==
    iterar(self, bases_dict, st, bases_incluidas - st.meses_incluidos)

(* fecha_actual = self.fecha_jubilacion - relativedelta(months=1) *)
fecha_inicial_recorrido_jubilacion(self) == self.fecha_jubilacion

fecha_inicial_recorrido(self) == self.fecha_jubilacion - 1

(* the walk started with the gap counter at contador_inicial *)
periodo_computo(self, usar_parametros_antiguos, contador_inicial) ==
    LET bases_todas == self.bases \o simular_periodo_futuro(self)
        bases_dict == construir_dict(bases_todas)
    IN  recorrer(self, bases_dict, bases_incluidas_de(self, usar_parametros_antiguos),
            [ok |-> TRUE,
             fecha_actual |-> fecha_inicial_recorrido(self),
             bases_periodo |-> <<>>,
             ordinales |-> <<>>,
             meses_incluidos |-> 0,
             contador_lagunas_local |-> contador_inicial])

(* return bases_periodo: st is the loop state at the end of the walk and     *)
(* contador the value of self.contador_lagunas                               *)
ventana(st, contador) ==
    [contador_lagunas |-> contador, ok |-> st.ok, val |-> st.bases_periodo,
     ordinales |-> st.ordinales]

(* the walk with the counter kept in self.contador_lagunas instead of a local *)
obtener_bases_periodo_computo_compartido(self, usar_parametros_antiguos) ==
    LET r == periodo_computo(self, usar_parametros_antiguos, self.contador_lagunas) IN
    ventana(r, r.contador_lagunas_local)

(* obtener_bases_periodo_computo: val is the returned list, ordinales the    *)
(* ordinal given to each month (0 for a month that has a record), and       *)
(* contador_lagunas the value of self.contador_lagunas when it returns.     *)
obtener_bases_periodo_computo(self, usar_parametros_antiguos) ==
    ventana(periodo_computo(self, usar_parametros_antiguos, 0), self.contador_lagunas)

----------------------------------------------------------------------------
(* SimuladorPeriodos: classification, revaluation, statistics *)

(* if fecha_base >= fecha_limite *)
en_periodo_no_revalorizado_estricto(fecha_base, fecha_limite) == fecha_base > fecha_limite

en_periodo_no_revalorizado(fecha_base, fecha_limite) == fecha_base >= fecha_limite

(* añadir_periodo *)
anyadir_periodo(self, bases_periodo) ==
    LET fecha_limite == self.fecha_jubilacion - MesesNoRevalorizados IN
    [i \in 1..Len(bases_periodo) |->
        LET base == bases_periodo[i]
            fecha_base == strptime(base.mes_anyo)
        IN  [base |-> base.base,
             empresa |-> base.empresa,
             mes_anyo |-> base.mes_anyo,
             regimen |-> base.regimen,
             periodo |-> IF en_periodo_no_revalorizado(fecha_base, fecha_limite)
                         THEN "no_revalorizado"
                         ELSE "revalorizado",
             pluriactividad |-> base.metadatos_pluriactividad,
             base_original |-> None,
             indice_revalorizacion |-> None]]

(* round(base_dict["base"] * indice, 2) *)
base_por_indice_sin_aplicar(base, indice) == base

base_por_indice(base, indice) == 10 * MulDivRound(base, indice, 10000)

(* revalorizar_bases; the identity index 1.0 is 1000 *)
revalorizar_bases(self, bases_con_periodo) ==
    [i \in 1..Len(bases_con_periodo) |->
        LET base_dict == bases_con_periodo[i]
            mes_anyo == base_dict.mes_anyo
        IN  IF base_dict.periodo = "revalorizado"
            THEN IF mes_anyo \in DOMAIN self.indices_revalorizacion
                 THEN LET indice == self.indices_revalorizacion[mes_anyo] IN
                      [base_dict EXCEPT
                          !.base = base_por_indice(base_dict.base, indice),
                          !.base_original = Some(base_dict.base),
                          !.indice_revalorizacion = Some(indice)]
                 ELSE [base_dict EXCEPT
                          !.base_original = Some(base_dict.base),
                          !.indice_revalorizacion = Some(1000)]
            ELSE base_dict]

(* base["periodo"] == "no_revalorizado" *)
es_no_revalorizado_otro(b) == b.periodo = "no revalorizado"

es_no_revalorizado(b) == b.periodo = "no_revalorizado"

(* round(suma_total / divisor, 2); divisor in hundredths *)
base_reguladora_de_350(suma, divisor) == 10 * MulDivRound(suma, 10, 100 * DivisorPrereforma)

base_reguladora_de(suma, divisor) == 10 * MulDivRound(suma, 10, divisor)

(* _calcular_estadisticas_para_bases; divisor in hundredths; {} is <<>> *)
calcular_estadisticas_para_bases(bs, divisor) ==
    IF bs = <<>> THEN Ok(<<>>)
    ELSE IF divisor = 0 THEN Error
    ELSE
    LET bases_revalorizadas == SelectSeq(bs, LAMBDA b : b.periodo = "revalorizado")
        bases_no_revalorizadas == SelectSeq(bs, es_no_revalorizado)
        suma_revalorizadas == sum(lista_de_bases(bases_revalorizadas))
        suma_no_revalorizadas == sum(lista_de_bases(bases_no_revalorizadas))
        suma_total == suma_revalorizadas + suma_no_revalorizadas
    IN  Ok([bases_revalorizadas |-> Len(bases_revalorizadas),
            bases_no_revalorizadas |-> Len(bases_no_revalorizadas),
            suma_total |-> round2(suma_total),
            total_bases |-> Len(bs),
            suma_periodo_revalorizado |-> round2(suma_revalorizadas),
            suma_periodo_no_revalorizado |-> round2(suma_no_revalorizadas),
            base_reguladora |-> base_reguladora_de(suma_total, divisor)])

(* suma_periodo_revalorizado *)
suma_periodo_revalorizado(self) ==
    IF self.bases_procesadas = <<>> THEN 0
    ELSE sum(lista_de_bases(SelectSeq(self.bases_procesadas,
                                      LAMBDA b : b.periodo = "revalorizado")))

(* suma_periodo_no_revalorizado *)
suma_periodo_no_revalorizado(self) ==
    IF self.bases_procesadas = <<>> THEN 0
    ELSE sum(lista_de_bases(SelectSeq(self.bases_procesadas,
                                      LAMBDA b : b.periodo = "no_revalorizado")))

(* suma_total *)
suma_total(self) == suma_periodo_revalorizado(self) + suma_periodo_no_revalorizado(self)

----------------------------------------------------------------------------
(* SimuladorPeriodos: the two computations and the choice *)

(* the divisor of the reform computation *)
divisor_reforma(self) == self.parametros_anyo_jubilacion.divisor_base_reguladora

(* the divisor of the prereform computation, in hundredths *)
divisor_prereforma(self) == 100 * DivisorPrereforma

(* return bases_revalorizadas, estadisticas: the run of one scheme, with the *)
(* ordinals of its walk                                                      *)
resultado_calculo(w, bases_revalorizadas, e) ==
    IF ~ e.ok THEN [contador_lagunas |-> w.contador_lagunas, ok |-> FALSE]
    ELSE [contador_lagunas |-> w.contador_lagunas, bases |-> bases_revalorizadas, ok |-> TRUE,
          ordinales |-> w.ordinales, estadisticas |-> e.val]

(* step 5: the statistics of the sorted list *)
calcular_estadisticas_calculo(w, bases_revalorizadas, divisor) ==
    resultado_calculo(w, bases_revalorizadas,
                      calcular_estadisticas_para_bases(bases_revalorizadas, divisor))

(* steps 2-4 on the window w: classify, revalue, sort *)
clasificar_y_revalorizar(self, w, divisor) ==
    IF ~ w.ok THEN [contador_lagunas |-> w.contador_lagunas, ok |-> FALSE]
    ELSE calcular_estadisticas_calculo(w,
             ordenar_por_fecha(revalorizar_bases(self, anyadir_periodo(self, w.val))),
             divisor)

(* steps 1-5 shared by _procesar_calculo_reforma and _procesar_calculo_prereforma *)
procesar_calculo(self, usar_parametros_antiguos, divisor) ==
    clasificar_y_revalorizar(self,
        obtener_bases_periodo_computo(self, usar_parametros_antiguos), divisor)

(* _procesar_calculo_reforma *)
procesar_calculo_reforma(self) == procesar_calculo(self, FALSE, divisor_reforma(self))

(* _procesar_calculo_prereforma *)
procesar_calculo_prereforma(self) == procesar_calculo(self, TRUE, divisor_prereforma(self))

(* es_mas_favorable_reforma *)
es_mas_favorable_reforma_estricto(base_reguladora_reforma, base_reguladora_prereforma) ==
    base_reguladora_reforma > base_reguladora_prereforma

es_mas_favorable_reforma(base_reguladora_reforma, base_reguladora_prereforma) ==
    base_reguladora_reforma >= base_reguladora_prereforma

(* _elegir_calculo_mas_favorable returning the reform's statistics on both branches *)
elegir_calculo_estadisticas_reforma(bases_reforma, estadisticas_reforma, bases_prereforma, estadisticas_prereforma) ==
    IF \/ "base_reguladora" \notin DOMAIN estadisticas_reforma
       \/ "base_reguladora" \notin DOMAIN estadisticas_prereforma
    THEN Error
    ELSE IF es_mas_favorable_reforma(estadisticas_reforma.base_reguladora,
                                     estadisticas_prereforma.base_reguladora)
    THEN Ok([bases |-> bases_reforma, estadisticas |-> estadisticas_reforma,
             calculo |-> "reforma_rd2_2023"])
    ELSE Ok([bases |-> bases_prereforma, estadisticas |-> estadisticas_reforma,
             calculo |-> "prereforma"])

(* _elegir_calculo_mas_favorable; a missing "base_reguladora" key raises *)
elegir_calculo_mas_favorable(bases_reforma, estadisticas_reforma, bases_prereforma, estadisticas_prereforma) ==
    IF \/ "base_reguladora" \notin DOMAIN estadisticas_reforma
       \/ "base_reguladora" \notin DOMAIN estadisticas_prereforma
    THEN Error
    ELSE IF es_mas_favorable_reforma(estadisticas_reforma.base_reguladora,
                                     estadisticas_prereforma.base_reguladora)
    THEN Ok([bases |-> bases_reforma, estadisticas |-> estadisticas_reforma,
             calculo |-> "reforma_rd2_2023"])
    ELSE Ok([bases |-> bases_prereforma, estadisticas |-> estadisticas_prereforma,
             calculo |-> "prereforma"])

(* _generar_resultado_completo *)
generar_resultado_completo(self, bases_elegidas, estadisticas_elegidas, calculo_elegido, bases_reforma, estadisticas_reforma, bases_prereforma, estadisticas_prereforma) ==
    [parametros_computo |-> self.parametros_anyo_jubilacion,
     regimen_acceso |-> self.regimen_acceso,
     sexo |-> self.sexo,
     fecha_jubilacion |-> strftime(self.fecha_jubilacion),
     bases_procesadas |-> bases_elegidas,
     estadisticas |-> estadisticas_elegidas,
     calculo_elegido |-> calculo_elegido,
     comparativa_calculos |->
        [calculo_reforma_rd2_2023 |->
            [parametros |->
                [bases_incluidas |-> self.parametros_anyo_jubilacion.bases_incluidas,
                 periodo_meses |-> self.parametros_anyo_jubilacion.periodo_meses,
                 divisor |-> self.parametros_anyo_jubilacion.divisor_base_reguladora],
             total_bases |-> Len(bases_reforma),
             estadisticas |-> estadisticas_reforma],
         calculo_prereforma |->
            [parametros |->
                [bases_incluidas |-> BasesPrereforma,
                 periodo_meses |-> BasesPrereforma,
                 divisor |-> 100 * DivisorPrereforma],
             total_bases |-> Len(bases_prereforma),
             estadisticas |-> estadisticas_prereforma]]]

(* procesar_bases_completo after the choice c: the outcome and the fields   *)
(* of self when the call ends                                                *)
resultado_eleccion(self, r, p, c) ==
    IF ~ c.ok
    THEN [contador_lagunas |-> p.contador_lagunas, bases_procesadas |-> self.bases_procesadas,
          ok |-> FALSE]
    ELSE [contador_lagunas |-> p.contador_lagunas,
          bases_procesadas |-> c.val.bases,
          ok |-> TRUE,
          val |-> generar_resultado_completo(
                      [self EXCEPT !.contador_lagunas = p.contador_lagunas],
                      c.val.bases, c.val.estadisticas, c.val.calculo,
                      r.bases, r.estadisticas, p.bases, p.estadisticas),
          reforma |-> r,
          prereforma |-> p]

(* procesar_bases_completo keeping the reform run when the prereform run raises *)
elegir_tras_prereforma_parcial(self, r, p) ==
    IF ~ p.ok
    THEN [contador_lagunas |-> p.contador_lagunas,
          bases_procesadas |-> r.bases,
          ok |-> TRUE,
          val |-> generar_resultado_completo(self, r.bases, r.estadisticas,
                      "reforma_rd2_2023", r.bases, r.estadisticas, <<>>, <<>>),
          reforma |-> r,
          prereforma |-> p]
    ELSE resultado_eleccion(self, r, p,
             elegir_calculo_mas_favorable(r.bases, r.estadisticas,
                                          p.bases, p.estadisticas))

(* procesar_bases_completo after the prereform run p: the choice *)
elegir_tras_prereforma(self, r, p) ==
    IF ~ p.ok
    THEN [contador_lagunas |-> p.contador_lagunas, bases_procesadas |-> self.bases_procesadas,
          ok |-> FALSE]
    ELSE resultado_eleccion(self, r, p,
             elegir_calculo_mas_favorable(r.bases, r.estadisticas,
                                          p.bases, p.estadisticas))

(* procesar_bases_completo after the reform run r: the prereform run *)
prereforma_tras_reforma(self, r) ==
    IF ~ r.ok
    THEN [contador_lagunas |-> r.contador_lagunas, bases_procesadas |-> self.bases_procesadas,
          ok |-> FALSE]
    ELSE elegir_tras_prereforma(self, r,
             procesar_calculo_prereforma(
                 [self EXCEPT !.contador_lagunas = r.contador_lagunas]))

(* procesar_bases_completo: val is the returned dict, bases_procesadas and   *)
(* contador_lagunas the fields of self when the call ends                    *)
procesar_bases_completo(self) ==
    prereforma_tras_reforma(self, procesar_calculo_reforma(self))

----------------------------------------------------------------------------
(* SimuladorPeriodos.__init__ *)

(* the object under construction or constructed, as the methods see it *)
Objeto(ra, sx, cl, cch, pc, ir, tc, fj, bs, paj, bp) ==
    [parametros_computo |-> pc, indices_revalorizacion |-> ir, topes_cotizacion |-> tc,
     regimen_acceso |-> ra, sexo |-> sx,
     contador_lagunas |-> cl, cumple_condiciones_hombre |-> cch,
     fecha_jubilacion |-> fj, bases |-> bs,
     parametros_anyo_jubilacion |-> paj, bases_procesadas |-> bp]

(* __init__: self.parametros_anyo_jubilacion = self.get_parametros_computo() *)
init_parametros(s2) ==
    LET pj == get_parametros_computo(s2) IN
    IF ~ pj.ok THEN pj
    ELSE Ok([s2 EXCEPT !.parametros_anyo_jubilacion = pj.val])

(* __init__ after self.bases = self._procesar_bases_extraidas(...) returned b *)
init_bases(s1, b) ==
    IF ~ b.ok THEN b
    ELSE init_parametros([s1 EXCEPT !.bases = b.val])

(* __init__ after the validation passed and the date was parsed *)
init_fecha(s1, bases_extraidas) ==
    init_bases(s1, procesar_bases_extraidas(s1, bases_extraidas))

(* __init__: the constructed object, or the error of the step that raises *)
init(bases_extraidas, fecha, regimen, sx, pc, ir, tc) ==
    LET s0 == Objeto(upper(regimen), upper(sx), 0, FALSE, pc, ir, tc, 0, <<>>, <<>>, <<>>)
        v == validar_datos_entrada(s0, bases_extraidas, fecha)
    IN
    IF ~ v.ok THEN v
    ELSE init_fecha([s0 EXCEPT !.fecha_jubilacion = procesar_fecha_jubilacion(fecha)],
                    bases_extraidas)

----------------------------------------------------------------------------
(* Reference data and inputs of the model *)

(* parametros_computo_anual: 300 / 350 for 2025, 302 of 304 months / 352.33 for 2026 *)
ParametrosComputo ==
    << [anyo |-> 2025, bases_incluidas |-> 300, periodo_meses |-> 300,
        divisor_base_reguladora |-> 35000],
       [anyo |-> 2026, bases_incluidas |-> 302, periodo_meses |-> 304,
        divisor_base_reguladora |-> 35233] >>

(* topes_cotizacion, in thousandths of a euro *)
TopesCotizacion ==
    << [anyo |-> 2025, base_minima_mensual |-> 1080000, base_maxima_mensual |-> 4495000],
       [anyo |-> 2024, base_minima_mensual |-> 1050010, base_maxima_mensual |-> 4400000] >>

(* indices_revalorizacion: one index per month of 2001..2020, none elsewhere *)
IndicesRevalorizacion ==
    [k \in {strftime(d) : d \in (12 * 2001)..(12 * 2021 - 1)} |->
        1000 + 15 * (2021 - k.yyyy)]

Configuraciones ==
    { <<ParametrosComputo, IndicesRevalorizacion, TopesCotizacion>>,
      <<ParametrosComputo, IndicesRevalorizacion, <<>> >> }

Fecha(mm, yyyy) == [yyyy |-> yyyy, mm |-> mm, pad |-> TRUE]
FechaSinCero(mm, yyyy) == [yyyy |-> yyyy, mm |-> mm, pad |-> FALSE]

BasesCandidatas ==
    { [base |-> 1000004, empresa |-> "Empresa A", mes_anyo |-> Fecha(1, 2025), regimen |-> "GENERAL"],
      [base |-> 450000, empresa |-> "Empresa B", mes_anyo |-> FechaSinCero(1, 2025), regimen |-> "AUTONOMO"],
      [base |-> 4000000, empresa |-> "Empresa A", mes_anyo |-> Fecha(12, 2001), regimen |-> "GENERAL"],
      [base |-> 0 - 100000, empresa |-> "Empresa A", mes_anyo |-> Fecha(1, 2025), regimen |-> "GENERAL"] }

ListasDeBases == UNION { [1..n -> BasesCandidatas] : n \in 0..MaxBases }

FechasJubilacion == { Fecha(1, 2025), Fecha(1, 2027) }
RegimenesEntrada == { "GENERAL", "autonomo" }
SexosEntrada == { "MASCULINO", "femenino" }
FechasLaguna == { Fecha(6, 2025), Fecha(6, 2010) }

(* the five records 09/2024 .. 01/2025 of the projection example, latest first *)
BasesEjemplo ==
    << [base |-> 1500500, empresa |-> "Empresa A", mes_anyo |-> Fecha(1, 2025), regimen |-> "GENERAL"],
       [base |-> 1450750, empresa |-> "Empresa A", mes_anyo |-> Fecha(12, 2024), regimen |-> "GENERAL"],
       [base |-> 1400250, empresa |-> "Empresa B", mes_anyo |-> Fecha(11, 2024), regimen |-> "GENERAL"],
       [base |-> 1350000, empresa |-> "Empresa B", mes_anyo |-> Fecha(10, 2024), regimen |-> "GENERAL"],
       [base |-> 1300500, empresa |-> "Empresa C", mes_anyo |-> Fecha(9, 2024), regimen |-> "GENERAL"] >>

(* the example list from its k-th record on, and those lists reversed *)
ListasEjemplo ==
    { SubSeq(BasesEjemplo, k, Len(BasesEjemplo)) : k \in 1..Len(BasesEjemplo) }
    \cup { [i \in 1..k |-> BasesEjemplo[k + 1 - i]] : k \in 1..Len(BasesEjemplo) }

(* the example continued to 07/2024: seven consecutive months, latest first *)
BasesSemestre ==
    BasesEjemplo \o
    << [base |-> 1250330, empresa |-> "Empresa C", mes_anyo |-> Fecha(8, 2024), regimen |-> "AUTONOMO"],
       [base |-> 900000, empresa |-> "Empresa C", mes_anyo |-> Fecha(7, 2024), regimen |-> "AUTONOMO"] >>

(* seven months, the six latest, the latest and the seventh alone, and the *)
(* sixth and seventh given before the latest                                *)
ListasSemestre ==
    { BasesSemestre,
      SubSeq(BasesSemestre, 1, 6),
      << BasesSemestre[1], BasesSemestre[7] >>,
      << BasesSemestre[7], BasesSemestre[6], BasesSemestre[1] >> }

(* records of 01/2025 (caps 1080 and 4495) whose sums fall below, on,      *)
(* between and above the caps, a negative record, a record of 12/2024       *)
BasesIngesta ==
    { [base |-> 450000, empresa |-> "Empresa A", mes_anyo |-> Fecha(1, 2025), regimen |-> "GENERAL"],
      [base |-> 540000, empresa |-> "Empresa B", mes_anyo |-> Fecha(1, 2025), regimen |-> "AUTONOMO"],
      [base |-> 1000000, empresa |-> "Empresa A", mes_anyo |-> Fecha(1, 2025), regimen |-> "GENERAL"],
      [base |-> 2247500, empresa |-> "Empresa C", mes_anyo |-> Fecha(1, 2025), regimen |-> "GENERAL"],
      [base |-> 2500000, empresa |-> "Empresa B", mes_anyo |-> Fecha(1, 2025), regimen |-> "AUTONOMO"],
      [base |-> 5000000, empresa |-> "Empresa C", mes_anyo |-> Fecha(1, 2025), regimen |-> "GENERAL"],
      [base |-> 0 - 100000, empresa |-> "Empresa A", mes_anyo |-> Fecha(1, 2025), regimen |-> "GENERAL"],
      [base |-> 1000000, empresa |-> "Empresa A", mes_anyo |-> Fecha(12, 2024), regimen |-> "GENERAL"] }

(* the lists of up to MaxBases of those records, and the lists of three     *)
(* records with two of one month and a negative one                         *)
ListasIngesta ==
    UNION { [1..n -> BasesIngesta] : n \in 0..MaxBases }
    \cup { s \in [1..3 -> { b \in BasesIngesta : b.base \in {1000000, 0 - 100000}
                                                  /\ b.mes_anyo = Fecha(1, 2025) }] :
               Cardinality({i \in 1..3 : s[i].base < 0}) = 1 }

(* bases_extraidas: well formed, or of one of the wrong shapes *)
FormasIngesta ==
    { NoDict, DictSinBases, Dict(NoLista) } \cup { Dict(Lista(be)) : be \in ListasIngesta }

(* "06/2025", "2025/06" and "13/2025" *)
FechasIngesta ==
    { Fecha(6, 2025), [yyyy |-> 6, mm |-> 2025, pad |-> TRUE], [yyyy |-> 2025, mm |-> 13, pad |-> TRUE] }
RegimenesIngesta == { "GENERAL", "autonomo", "INVALIDO" }
SexosIngesta == { "MASCULINO", "femenino", "OTRO" }

(* tables with which one scheme run raises: a divisor 0 for the reform, and *)
(* a reform window of one month with no cap table for the gaps of the       *)
(* prereform window                                                         *)
ParametrosDivisorCero ==
    << [anyo |-> 2025, bases_incluidas |-> 300, periodo_meses |-> 300,
        divisor_base_reguladora |-> 0] >>

ParametrosUnMes ==
    << [anyo |-> 2025, bases_incluidas |-> 1, periodo_meses |-> 1,
        divisor_base_reguladora |-> 35000] >>

ConfiguracionesFallo ==
    { <<ParametrosComputo, IndicesRevalorizacion, TopesCotizacion>>,
      <<ParametrosDivisorCero, IndicesRevalorizacion, TopesCotizacion>>,
      <<ParametrosUnMes, IndicesRevalorizacion, TopesCotizacion>>,
      <<ParametrosUnMes, IndicesRevalorizacion, <<>> >> }

BasesFallo ==
    { [base |-> 1500000, empresa |-> "Empresa A", mes_anyo |-> Fecha(12, 2024), regimen |-> "GENERAL"],
      [base |-> 1200000, empresa |-> "Empresa B", mes_anyo |-> Fecha(6, 2024), regimen |-> "GENERAL"] }

ListasFallo == UNION { [1..n -> BasesFallo] : n \in 1..MaxBases }

FechasFallo == { Fecha(1, 2025), Fecha(6, 2025) }

(* an index table with 1.035 for 06/2015, an index for the other months of *)
(* 2010..2019 and none elsewhere                                            *)
IndicesPeriodos ==
    [k \in {strftime(d) : d \in (12 * 2010)..(12 * 2020 - 1)} |->
        IF k = Fecha(6, 2015) THEN 1035 ELSE 1000 + 7 * (2021 - k.yyyy)]

ConfiguracionesPeriodos == { <<ParametrosComputo, IndicesPeriodos, TopesCotizacion>> }

BasesPeriodos ==
    { [base |-> 1000000, empresa |-> "Empresa A", mes_anyo |-> Fecha(6, 2015), regimen |-> "GENERAL"],
      [base |-> 2000000, empresa |-> "Empresa B", mes_anyo |-> Fecha(6, 2005), regimen |-> "GENERAL"],
      [base |-> 1500000, empresa |-> "Empresa A", mes_anyo |-> Fecha(12, 2024), regimen |-> "GENERAL"] }

ListasPeriodos == UNION { [1..n -> BasesPeriodos] : n \in 1..MaxBases }

FechasPeriodos == { Fecha(1, 2025), Fecha(6, 2025) }

(* the lengths of the lists passed to añadir_periodo: the first months of a window *)
LongitudesPeriodo == { 1, 23, 24, 25 }

(* tables with years apart, in the order the cache holds them *)
ParametrosTablas ==
    << [anyo |-> 2030, bases_incluidas |-> 324, periodo_meses |-> 348,
        divisor_base_reguladora |-> 37800],
       [anyo |-> 2020, bases_incluidas |-> 264, periodo_meses |-> 264,
        divisor_base_reguladora |-> 30800],
       [anyo |-> 2024, bases_incluidas |-> 300, periodo_meses |-> 300,
        divisor_base_reguladora |-> 35000] >>

TopesTablas ==
    << [anyo |-> 2030, base_minima_mensual |-> 1200000, base_maxima_mensual |-> 5000000],
       [anyo |-> 2020, base_minima_mensual |-> 1050000, base_maxima_mensual |-> 4070100],
       [anyo |-> 2024, base_minima_mensual |-> 1050010, base_maxima_mensual |-> 4400000] >>

ConfiguracionesTablas ==
    { <<ParametrosTablas, IndicesRevalorizacion, TopesTablas>>,
      <<ParametrosComputo, IndicesRevalorizacion, TopesCotizacion>>,
      <<SubSeq(ParametrosTablas, 1, 1), IndicesRevalorizacion, SubSeq(TopesTablas, 3, 3)>> }

ListasTablas ==
    { <<[base |-> 1500000, empresa |-> "Empresa A", mes_anyo |-> Fecha(12, 2023), regimen |-> "GENERAL"]>> }

FechasTablas ==
    { Fecha(6, 2018), Fecha(6, 2020), Fecha(6, 2022), Fecha(6, 2024), Fecha(6, 2025),
      Fecha(6, 2027), Fecha(6, 2030), Fecha(6, 2035) }

AnyosTablas == 2015..2035

FechasEjemplo == { Fecha(6, 2025), Fecha(2, 2025), Fecha(1, 2025), Fecha(11, 2024), Fecha(3, 2026) }
OrdinalesLaguna == { 1, 48, 49, 60, 61, 70, 84, 85, MaxLaguna }

----------------------------------------------------------------------------
(* State machine *)

SinLlamada == [ok |-> TRUE, op |-> "ninguna", arg |-> <<>>, res |-> <<>>]

(* no upload: the file of a request that carries none *)
SinArchivo == [es_pdf |-> FALSE, grande |-> FALSE]

(* the request of a route, as its handler receives it, before any step *)
Peticion(ruta, file, bases_extraidas, fecha, regimen, sx) ==
    [regimen_acceso |-> regimen, sexo |-> sx, fecha_jubilacion |-> fecha,
     bases_extraidas |-> bases_extraidas, ruta |-> ruta,
     file |-> file, etapa |-> "recibida",
     temp_file |-> None, temp_file_path |-> None,
     resultado_extraccion |-> <<>>, excepcion |-> "", status_code |-> 0]

(* no request in flight *)
SinPeticion == [Peticion("", SinArchivo, <<>>, Fecha(1, 2000), "", "") EXCEPT !.etapa = "libre"]

Self == Objeto(regimen_acceso, sexo, contador_lagunas, cumple_condiciones_hombre,
               parametros_computo, indices_revalorizacion, topes_cotizacion,
               fecha_jubilacion, bases, parametros_anyo_jubilacion, bases_procesadas)

Init ==
    /\ \E c \in Configuraciones :
          /\ parametros_computo = c[1]
          /\ indices_revalorizacion = c[2]
          /\ topes_cotizacion = c[3]
    /\ estado = "nuevo"
    /\ regimen_acceso = ""
    /\ sexo = ""
    /\ contador_lagunas = 0
    /\ cumple_condiciones_hombre = FALSE
    /\ fecha_jubilacion = 0
    /\ bases = <<>>
    /\ parametros_anyo_jubilacion = <<>>
    /\ bases_procesadas = <<>>
    /\ llamada = SinLlamada
    /\ peticion = SinPeticion
    /\ archivos_temporales = {}

(* SimuladorPeriodos(bases_extraidas, fecha_jubilacion, regimen_acceso, sexo) *)
Construir(bases_extraidas, fecha, regimen, sx) ==
    /\ estado = "nuevo"
    /\ \E r \in {init(bases_extraidas, fecha, regimen, sx, parametros_computo,
                      indices_revalorizacion, topes_cotizacion)} :
           IF r.ok
           THEN /\ estado' = "listo"
                /\ regimen_acceso' = r.val.regimen_acceso
                /\ sexo' = r.val.sexo
                /\ contador_lagunas' = r.val.contador_lagunas
                /\ cumple_condiciones_hombre' = r.val.cumple_condiciones_hombre
                /\ fecha_jubilacion' = r.val.fecha_jubilacion
                /\ bases' = r.val.bases
                /\ parametros_anyo_jubilacion' = r.val.parametros_anyo_jubilacion
                /\ bases_procesadas' = r.val.bases_procesadas
                /\ llamada' = [ok |-> TRUE,
                                 op |-> "__init__",
                                 arg |-> <<bases_extraidas, fecha, regimen, sx>>, res |-> <<>>]
           ELSE /\ estado' = "error"
                /\ llamada' = [ok |-> FALSE,
                                 op |-> "__init__",
                                 arg |-> <<bases_extraidas, fecha, regimen, sx>>, res |-> r.val]
                /\ UNCHANGED <<fields, bases_procesadas>>
    /\ UNCHANGED <<servidor, config>>

(* simulador.simular_periodo_futuro() appending its records to self.bases *)
SimularPeriodoFuturoGuardando ==
    /\ estado = "listo"
    /\ \E r \in {simular_periodo_futuro(Self)} :
       /\ llamada' = [ok |-> TRUE, op |-> "simular_periodo_futuro", arg |-> <<>>, res |-> r]
       /\ bases' = bases \o r
    /\ UNCHANGED <<servidor, config, estado, regimen_acceso, sexo, contador_lagunas,
                   cumple_condiciones_hombre, fecha_jubilacion,
                   parametros_anyo_jubilacion, bases_procesadas>>

(* simulador.simular_periodo_futuro() *)
SimularPeriodoFuturo ==
    /\ estado = "listo"
    /\ \E r \in {simular_periodo_futuro(Self)} :
       llamada' = [ok |-> TRUE, op |-> "simular_periodo_futuro", arg |-> <<>>, res |-> r]
    /\ UNCHANGED <<servidor, config, estado, fields, bases_procesadas>>

(* simulador.obtener_bases_periodo_computo(usar_parametros_antiguos) *)
ObtenerBasesPeriodoComputo(usar_parametros_antiguos) ==
    /\ estado = "listo"
    /\ \E r \in {obtener_bases_periodo_computo(Self, usar_parametros_antiguos)} :
       /\ llamada' = [ok |-> r.ok,
                      op |-> "obtener_bases_periodo_computo", arg |-> <<usar_parametros_antiguos>>,
                      res |-> IF r.ok THEN [val |-> r.val, ordinales |-> r.ordinales]
                              ELSE <<>>]
       /\ contador_lagunas' = r.contador_lagunas
    /\ UNCHANGED <<servidor, config, estado, regimen_acceso, sexo,
                   cumple_condiciones_hombre, fecha_jubilacion, bases,
                   parametros_anyo_jubilacion, bases_procesadas>>

(* simulador.procesar_bases_completo() *)
ProcesarBasesCompleto ==
    /\ estado = "listo"
    /\ \E r \in {procesar_bases_completo(Self)} :
       /\ llamada' = [ok |-> r.ok, op |-> "procesar_bases_completo", arg |-> <<>>,
                      res |-> IF r.ok THEN [val |-> r.val,
                                            reforma |-> r.reforma,
                                            prereforma |-> r.prereforma]
                              ELSE <<>>]
       /\ bases_procesadas' = r.bases_procesadas
       /\ contador_lagunas' = r.contador_lagunas
    /\ UNCHANGED <<servidor, config, estado, regimen_acceso, sexo,
                   cumple_condiciones_hombre, fecha_jubilacion, bases,
                   parametros_anyo_jubilacion>>

(* simulador.añadir_periodo(bases_periodo), bases_periodo being the first n *)
(* months of the window the last call returned, or the whole window          *)
AnyadirPeriodo(n) ==
    /\ estado = "listo"
    /\ llamada.op = "obtener_bases_periodo_computo"
    /\ llamada.ok
    /\ n <= Len(llamada.res.val)
    /\ \E bases_periodo \in {SubSeq(llamada.res.val, 1, n)} :
       llamada' = [ok |-> TRUE, op |-> "anyadir_periodo", arg |-> <<bases_periodo>>,
                   res |-> anyadir_periodo(Self, bases_periodo)]
    /\ UNCHANGED <<servidor, config, estado, fields, bases_procesadas>>

(* simulador.revalorizar_bases(bases_con_periodo), bases_con_periodo being *)
(* the list the last call returned                                          *)
RevalorizarBases ==
    /\ estado = "listo"
    /\ llamada.op = "anyadir_periodo"
    /\ \E bases_con_periodo \in {llamada.res} :
       llamada' = [ok |-> TRUE, op |-> "revalorizar_bases", arg |-> <<bases_con_periodo>>,
                   res |-> revalorizar_bases(Self, bases_con_periodo)]
    /\ UNCHANGED <<servidor, config, estado, fields, bases_procesadas>>

(* simulador.get_parametros_computo() *)
GetParametrosComputo ==
    /\ estado = "listo"
    /\ \E r \in {get_parametros_computo(Self)} :
       llamada' = [ok |-> r.ok, op |-> "get_parametros_computo", arg |-> <<>>,
                   res |-> IF r.ok THEN r.val ELSE <<>>]
    /\ UNCHANGED <<servidor, config, estado, fields, bases_procesadas>>

(* simulador._obtener_topes_año(año) *)
ObtenerTopesAnyo(anyo) ==
    /\ estado = "listo"
    /\ \E r \in {obtener_topes_anyo(Self, anyo)} :
       llamada' = [ok |-> r.ok, op |-> "obtener_topes_anyo", arg |-> <<anyo>>,
                   res |-> IF r.ok THEN r.val ELSE <<>>]
    /\ UNCHANGED <<servidor, config, estado, fields, bases_procesadas>>

(* simulador._calcular_estadisticas_para_bases(bases_procesadas, divisor), *)
(* bases_procesadas being the list the last call returned                  *)
CalcularEstadisticasParaBases(divisor) ==
    /\ estado = "listo"
    /\ llamada.op = "revalorizar_bases"
    /\ \E r \in {calcular_estadisticas_para_bases(llamada.res, divisor)} :
       llamada' = [ok |-> r.ok, op |-> "calcular_estadisticas_para_bases",
                   arg |-> <<llamada.res, divisor>>,
                   res |-> IF r.ok THEN r.val ELSE <<>>]
    /\ UNCHANGED <<servidor, config, estado, fields, bases_procesadas>>

(* simulador.calcular_base_laguna(fecha_laguna, n_laguna) *)
CalcularBaseLaguna(fecha_laguna, n_laguna) ==
    /\ estado = "listo"
    /\ \E r \in {calcular_base_laguna(Self, fecha_laguna, n_laguna)} :
       llamada' = [ok |-> r.ok, op |-> "calcular_base_laguna",
                   arg |-> <<fecha_laguna, n_laguna>>, res |-> IF r.ok THEN r.val ELSE 0]
    /\ UNCHANGED <<servidor, config, estado, fields, bases_procesadas>>

Construccion ==
    \E be \in ListasDeBases, f \in FechasJubilacion,
       r \in RegimenesEntrada, s \in SexosEntrada :
        Construir(Dict(Lista(be)), f, r, s)

Next ==
    \/ Construccion
    \/ SimularPeriodoFuturo
    \/ \E u \in BOOLEAN : ObtenerBasesPeriodoComputo(u)
    \/ ProcesarBasesCompleto

Spec == Init /\ [][Next]_vars

(* the gap rule called on its own *)
NextLaguna ==
    \/ Construccion
    \/ \E f \in FechasLaguna, n \in OrdinalesLaguna : CalcularBaseLaguna(f, n)

SpecLaguna == Init /\ [][NextLaguna]_vars

(* the projection called on the example records *)
ConstruccionEjemplo ==
    \E be \in ListasEjemplo \cup ListasSemestre, f \in FechasEjemplo,
       r \in RegimenesEntrada, s \in SexosEntrada :
        Construir(Dict(Lista(be)), f, r, s)

NextProyeccion ==
    \/ ConstruccionEjemplo
    \/ SimularPeriodoFuturo

SpecProyeccion == Init /\ [][NextProyeccion]_vars

(* the constructor called on well and ill formed arguments *)
ConstruccionIngesta ==
    \E be \in FormasIngesta, f \in FechasIngesta,
       r \in RegimenesIngesta, s \in SexosIngesta :
        Construir(be, f, r, s)

NextIngesta == ConstruccionIngesta

SpecIngesta == Init /\ [][NextIngesta]_vars

(* the state before any simulator is built, with one of the given tables *)
Inicio(configuraciones) ==
    /\ \E c \in configuraciones :
          /\ parametros_computo = c[1]
          /\ indices_revalorizacion = c[2]
          /\ topes_cotizacion = c[3]
    /\ estado = "nuevo"
    /\ regimen_acceso = ""
    /\ sexo = ""
    /\ contador_lagunas = 0
    /\ cumple_condiciones_hombre = FALSE
    /\ fecha_jubilacion = 0
    /\ bases = <<>>
    /\ parametros_anyo_jubilacion = <<>>
    /\ bases_procesadas = <<>>
    /\ llamada = SinLlamada
    /\ peticion = SinPeticion
    /\ archivos_temporales = {}

(* procesar_bases_completo with tables that make a scheme run raise *)
InitFallo == Inicio(ConfiguracionesFallo)

ConstruccionFallo ==
    \E be \in ListasFallo, f \in FechasFallo,
       r \in RegimenesEntrada, s \in SexosEntrada :
        Construir(Dict(Lista(be)), f, r, s)

NextFallo ==
    \/ ConstruccionFallo
    \/ ProcesarBasesCompleto

SpecFallo == InitFallo /\ [][NextFallo]_vars

(* the two table lookups called on their own *)
InitTablas == Inicio(ConfiguracionesTablas)

ConstruccionTablas ==
    \E be \in ListasTablas, f \in FechasTablas :
        Construir(Dict(Lista(be)), f, "GENERAL", "MASCULINO")

NextTablas ==
    \/ ConstruccionTablas
    \/ GetParametrosComputo
    \/ \E anyo \in AnyosTablas : ObtenerTopesAnyo(anyo)

SpecTablas == InitTablas /\ [][NextTablas]_vars

(* the walk, the classification and the revaluation called one after the other *)
InitPeriodos == Inicio(ConfiguracionesPeriodos)

ConstruccionPeriodos ==
    \E be \in ListasPeriodos, f \in FechasPeriodos, r \in RegimenesEntrada :
        Construir(Dict(Lista(be)), f, r, "MASCULINO")

NextPeriodos ==
    \/ ConstruccionPeriodos
    \/ \E u \in BOOLEAN : ObtenerBasesPeriodoComputo(u)
    \/ \E n \in LongitudesPeriodo \cup {BasesPrereforma} : AnyadirPeriodo(n)
    \/ RevalorizarBases

SpecPeriodos == InitPeriodos /\ [][NextPeriodos]_vars

(* every operation of the simulator, called in any order *)
NextMotor ==
    \/ ConstruccionPeriodos
    \/ SimularPeriodoFuturo
    \/ \E u \in BOOLEAN : ObtenerBasesPeriodoComputo(u)
    \/ \E n \in {24, 25, BasesPrereforma} : AnyadirPeriodo(n)
    \/ RevalorizarBases
    \/ /\ estado = "listo"
       /\ \E d \in {divisor_reforma(Self), divisor_prereforma(Self)} :
              CalcularEstadisticasParaBases(d)
    \/ ProcesarBasesCompleto

SpecMotor == InitPeriodos /\ [][NextMotor]_vars

----------------------------------------------------------------------------
(* api/endpoints: the handlers of /simulate, /process and /extract *)

(* re.match(r'^\d{2}/\d{4}$', fecha): a month of two digits and a year of   *)
(* four, so "1/2025" and "2025/06" do not match and "13/2025" does          *)
coincide_mm_aaaa(fecha) ==
    /\ (fecha.pad /\ fecha.mm \in 0..9) \/ fecha.mm \in 10..99
    /\ fecha.yyyy \in 1000..9999

(* the except clauses of simulate_bases and process_pdf_complete: the       *)
(* status of the HTTPException raised for an exception of the given type    *)
status_de_excepcion(tipo) ==
    IF tipo = "ValueError" THEN 400
    ELSE IF tipo = "BasesParserError" THEN 400
    ELSE 500

(* the except clauses of extract_bases *)
status_de_excepcion_extract(tipo) ==
    IF tipo = "BasesParserError" THEN 400 ELSE 500

(* SimuladorPeriodos(...), procesar_bases_completo() and the response built *)
(* from its outcome: the type of the exception raised, "" when none. The    *)
(* constructor, an empty table and an empty statistics dict raise           *)
(* ValueError, a divisor of 0 ZeroDivisionError.                            *)
excepcion_tras_procesar(simulador, r) ==
    IF r.ok
    THEN IF r.val.estadisticas = <<>> THEN "ValueError" ELSE ""
    ELSE IF obtener_bases_periodo_computo(simulador, FALSE).ok
            /\ divisor_reforma(simulador) = 0
         THEN "ZeroDivisionError"
         ELSE "ValueError"

excepcion_tras_construir(c) ==
    IF ~ c.ok THEN "ValueError"
    ELSE excepcion_tras_procesar(c.val, procesar_bases_completo(c.val))

excepcion_de_simulacion(bases_dict, fecha, regimen, sx) ==
    excepcion_tras_construir(
        init(Dict(Lista(bases_dict)), fecha, regimen, sx,
             parametros_computo, indices_revalorizacion, topes_cotizacion))

(* the try block of simulate_bases: the type of the exception it raises *)
excepcion_de_simulate(request) ==
    IF request.bases_extraidas = <<>> THEN "HTTPException"
    ELSE excepcion_de_simulacion(request.bases_extraidas, request.fecha_jubilacion,
                                 request.regimen_acceso, request.sexo)

(* the response of a handler whose try block ended with the given exception *)
respuesta(p, tipo, status) ==
    [p EXCEPT !.etapa = "fin", !.excepcion = tipo, !.status_code = status]

(* SimulateRequest: the validators of the request model answer 422 *)
peticion_valida(request) ==
    /\ coincide_mm_aaaa(request.fecha_jubilacion)
    /\ upper(request.regimen_acceso) \in {"GENERAL", "AUTONOMO"}
    /\ upper(request.sexo) \in {"MASCULINO", "FEMENINO"}

(* POST /simulate *)
simulate_bases(p) ==
    IF ~ peticion_valida(p) THEN respuesta(p, "RequestValidationError", 422)
    ELSE LET request == [p EXCEPT !.regimen_acceso = upper(@), !.sexo = upper(@)]
             tipo == excepcion_de_simulate(request)
         IN  IF tipo = "" THEN respuesta(request, "", 200)
             ELSE respuesta(request, tipo, status_de_excepcion(tipo))

(* process_pdf_complete before its try block: the checks of the upload and  *)
(* of the form fields, each raising HTTPException(400)                      *)
validar_process(p) ==
    IF ~ p.file.es_pdf THEN respuesta(p, "HTTPException", 400)
    ELSE IF p.file.grande THEN respuesta(p, "HTTPException", 400)
    ELSE IF ~ coincide_mm_aaaa(p.fecha_jubilacion) THEN respuesta(p, "HTTPException", 400)
    ELSE IF upper(p.regimen_acceso) \notin {"GENERAL", "AUTONOMO"}
    THEN respuesta(p, "HTTPException", 400)
    ELSE IF upper(p.sexo) \notin {"MASCULINO", "FEMENINO"}
    THEN respuesta(p, "HTTPException", 400)
    ELSE [p EXCEPT !.etapa = "crear", !.regimen_acceso = upper(@), !.sexo = upper(@)]

(* extract_bases before its try block *)
validar_extract(p) ==
    IF ~ p.file.es_pdf THEN respuesta(p, "HTTPException", 400)
    ELSE IF p.file.grande THEN respuesta(p, "HTTPException", 400)
    ELSE [p EXCEPT !.etapa = "crear"]

(* the status of the exception that leaves the try block of the route *)
status_de(ruta, tipo) ==
    IF ruta = "/extract" THEN status_de_excepcion_extract(tipo)
    ELSE status_de_excepcion(tipo)

(* tempfile.NamedTemporaryFile: a name no file on disk has *)
nombre_temporal(archivos) ==
    CHOOSE n \in 1..(Cardinality(archivos) + 1) :
        /\ n \notin archivos
        /\ \A m \in 1..(n - 1) : m \in archivos

(* the inner try block after extractor.run() returned or raised: the        *)
(* exception that is pending while the finally clause runs                  *)
excepcion_de_extraccion(ruta, resultado) ==
    IF ~ resultado.ok THEN "Exception"
    ELSE IF ruta = "/process" /\ resultado.val = <<>> THEN "HTTPException"
    ELSE ""

(* a client sends POST /simulate: the handler runs to its response *)
Simulate(bases_extraidas, fecha, regimen, sx) ==
    /\ peticion.etapa \in {"libre", "fin"}
    /\ peticion' = simulate_bases(Peticion("/simulate", SinArchivo, bases_extraidas,
                                           fecha, regimen, sx))
    /\ UNCHANGED <<archivos_temporales, config, estado, fields, bases_procesadas, llamada>>

(* a client sends POST /process: the checks before the try block *)
Process(file, fecha, regimen, sx) ==
    /\ peticion.etapa \in {"libre", "fin"}
    /\ Cardinality(archivos_temporales) < MaxTemporales
    /\ peticion' = validar_process(Peticion("/process", file, <<>>, fecha, regimen, sx))
    /\ UNCHANGED <<archivos_temporales, config, estado, fields, bases_procesadas, llamada>>

(* a client sends POST /extract: the checks before the try block *)
Extract(file) ==
    /\ peticion.etapa \in {"libre", "fin"}
    /\ Cardinality(archivos_temporales) < MaxTemporales
    /\ peticion' = validar_extract(Peticion("/extract", file, <<>>, Fecha(1, 2000), "", ""))
    /\ UNCHANGED <<archivos_temporales, config, estado, fields, bases_procesadas, llamada>>

(* with tempfile.NamedTemporaryFile(delete=False, suffix='.pdf') as         *)
(* temp_file: the file is created on disk, or the call raises               *)
CrearTemporal(creado) ==
    /\ peticion.etapa = "crear"
    /\ IF creado
       THEN \E n \in {nombre_temporal(archivos_temporales)} :
               /\ archivos_temporales' = archivos_temporales \cup {n}
               /\ peticion' = [peticion EXCEPT !.etapa = "leer", !.temp_file = Some(n)]
       ELSE /\ peticion' = respuesta(peticion, "OSError", status_de(peticion.ruta, "OSError"))
            /\ UNCHANGED archivos_temporales
    /\ UNCHANGED <<config, estado, fields, bases_procesadas, llamada>>

(* content = await file.read(), inside the with block: when it raises, the  *)
(* with block closes the file, which delete=False keeps on disk, and the    *)
(* exception reaches the except clauses of the outer try                    *)
LeerArchivo(leido) ==
    /\ peticion.etapa = "leer"
    /\ peticion' = IF leido THEN [peticion EXCEPT !.etapa = "escribir"]
                   ELSE respuesta(peticion, "Exception",
                                  status_de(peticion.ruta, "Exception"))
    /\ UNCHANGED <<archivos_temporales, config, estado, fields, bases_procesadas, llamada>>

(* temp_file.write(content); temp_file_path = Path(temp_file.name) *)
EscribirTemporal(escrito) ==
    /\ peticion.etapa = "escribir"
    /\ peticion' = IF escrito
                   THEN [peticion EXCEPT !.etapa = "extraer",
                                         !.temp_file_path = peticion.temp_file]
                   ELSE respuesta(peticion, "OSError", status_de(peticion.ruta, "OSError"))
    /\ UNCHANGED <<archivos_temporales, config, estado, fields, bases_procesadas, llamada>>

(* the inner try block: ExtractorBasesCotizacion(temp_file_path).run()      *)
(* returns the bases of the PDF or raises, then the check for no bases      *)
(* (/process) or the response (/extract)                                    *)
Extraer(resultado) ==
    /\ peticion.etapa = "extraer"
    /\ peticion' = [peticion EXCEPT
                       !.etapa = "limpiar",
                       !.resultado_extraccion = IF resultado.ok THEN resultado.val ELSE <<>>,
                       !.excepcion = excepcion_de_extraccion(peticion.ruta, resultado)]
    /\ UNCHANGED <<archivos_temporales, config, estado, fields, bases_procesadas, llamada>>

(* finally: if temp_file_path.exists(): temp_file_path.unlink(); then the   *)
(* pending exception reaches the except clauses, /extract returns its       *)
(* response and /process goes on to the simulation                          *)
LimpiarTemporal ==
    /\ peticion.etapa = "limpiar"
    /\ archivos_temporales' = archivos_temporales \ {peticion.temp_file_path[1]}
    /\ peticion' = IF peticion.excepcion # ""
                   THEN respuesta(peticion, peticion.excepcion,
                                  status_de(peticion.ruta, peticion.excepcion))
                   ELSE IF peticion.ruta = "/extract" THEN respuesta(peticion, "", 200)
                   ELSE [peticion EXCEPT !.etapa = "simular"]
    /\ UNCHANGED <<config, estado, fields, bases_procesadas, llamada>>

(* process_pdf_complete, step 2: the simulation of the extracted bases *)
SimularExtraidas ==
    /\ peticion.etapa = "simular"
    /\ \E tipo \in {excepcion_de_simulacion(peticion.resultado_extraccion,
                                            peticion.fecha_jubilacion,
                                            peticion.regimen_acceso, peticion.sexo)} :
           peticion' = IF tipo = "" THEN respuesta(peticion, "", 200)
                       ELSE respuesta(peticion, tipo, status_de_excepcion(tipo))
    /\ UNCHANGED <<archivos_temporales, config, estado, fields, bases_procesadas, llamada>>

(* the uploads: a PDF, a file of another type, a PDF over 10 MB *)
Archivos ==
    { [es_pdf |-> TRUE, grande |-> FALSE], [es_pdf |-> FALSE, grande |-> FALSE],
      [es_pdf |-> TRUE, grande |-> TRUE] }

(* the lists of bases a request carries or a PDF yields: none, the example  *)
(* records, a negative record                                               *)
ListasApi ==
    { <<>>, BasesEjemplo, << BasesEjemplo[1] >>,
      << [base |-> 0 - 100000, empresa |-> "Empresa A", mes_anyo |-> Fecha(1, 2025),
          regimen |-> "GENERAL"] >> }

(* "01/2027", "13/2025" and "1/2027" *)
FechasApi == { Fecha(1, 2027), Fecha(13, 2025), FechaSinCero(1, 2027) }
RegimenesApi == { "GENERAL", "autonomo", "INVALIDO" }
SexosApi == { "MASCULINO", "OTRO" }

(* what extractor.run() does: it raises, or returns the bases of the PDF *)
Extracciones == { Error } \cup { Ok(be) : be \in ListasApi }

InitApi == Inicio(Configuraciones)

NextApi ==
    \/ \E be \in ListasApi, f \in FechasApi, r \in RegimenesApi, s \in SexosApi :
           Simulate(be, f, r, s)
    \/ \E a \in Archivos, f \in FechasApi, r \in RegimenesApi, s \in SexosApi :
           Process(a, f, r, s)
    \/ \E a \in Archivos : Extract(a)
    \/ \E creado \in BOOLEAN : CrearTemporal(creado)
    \/ \E leido \in BOOLEAN : LeerArchivo(leido)
    \/ \E escrito \in BOOLEAN : EscribirTemporal(escrito)
    \/ \E resultado \in Extracciones : Extraer(resultado)
    \/ LimpiarTemporal
    \/ SimularExtraidas

SpecApi == InitApi /\ [][NextApi]_vars

----------------------------------------------------------------------------
(* What a state shows of the last call *)

EsVentana == llamada.op = "obtener_bases_periodo_computo" /\ llamada.ok

EsResultado == llamada.op = "procesar_bases_completo" /\ llamada.ok

EsSimulacion == llamada.op = "simular_periodo_futuro" /\ llamada.ok

EsLaguna == llamada.op = "calcular_base_laguna" /\ llamada.ok

(* the walks whose window the state shows: the window, the ordinal given to *)
(* each of its months, and whether it is the prereform walk                  *)
Recorridos ==
    IF EsVentana
    THEN {[bases |-> llamada.res.val, ordinales |-> llamada.res.ordinales,
           antiguos |-> llamada.arg[1]]}
    ELSE IF EsResultado
    THEN {[bases |-> llamada.res.reforma.bases,
           ordinales |-> llamada.res.reforma.ordinales, antiguos |-> FALSE],
          [bases |-> llamada.res.prereforma.bases,
           ordinales |-> llamada.res.prereforma.ordinales, antiguos |-> TRUE]}
    ELSE {}

(* the two scheme runs of an outcome, each with the divisor it must use *)
Calculos ==
    IF EsResultado
    THEN {[bases |-> llamada.res.reforma.bases,
           divisor |-> parametros_anyo_jubilacion.divisor_base_reguladora,
           estadisticas |-> llamada.res.reforma.estadisticas],
          [bases |-> llamada.res.prereforma.bases,
           divisor |-> 35000,
           estadisticas |-> llamada.res.prereforma.estadisticas]}
    ELSE {}

EsHueco(w, i) == w.ordinales[i] > 0

SumaDe(bs) == sum([i \in 1..Len(bs) |-> bs[i].base])

(* the month of a "mm/AAAA" key, and the month of the latest record of self.bases *)
MesDe(k) == 12 * k.yyyy + k.mm - 1

UltimoMes == CHOOSE m \in {MesDe(bases[i].mes_anyo) : i \in 1..Len(bases)} :
                 \A i \in 1..Len(bases) : MesDe(bases[i].mes_anyo) <= m

----------------------------------------------------------------------------
(* C1: a walk that returns gives exactly N records, N being 300 for the     *)
(* prereform walk and the selected bases_incluidas otherwise, and its i-th  *)
(* record is the month i months before the retirement month: the months     *)
(* retirement-1 down to retirement-N, contiguous, none twice, none missing. *)
C1_VentanaContigua ==
    \A w \in Recorridos :
        LET N == IF w.antiguos THEN 300 ELSE parametros_anyo_jubilacion.bases_incluidas
        IN  /\ Len(w.bases) = N
            /\ \A i \in 1..N :
                   /\ w.bases[i].mes_anyo.pad
                   /\ 12 * w.bases[i].mes_anyo.yyyy + w.bases[i].mes_anyo.mm - 1
                        = fecha_jubilacion - i

(* a 302-month reform window holding an extracted, a projected and an imputed month *)
C1_Witness ==
    /\ EsVentana
    /\ ~ llamada.arg[1]
    /\ Len(llamada.res.val) = 302
    /\ \E i, j, k \in 1..Len(llamada.res.val) :
           /\ llamada.res.val[i].empresa = "SIMULADA"
           /\ llamada.res.val[j].empresa = "LAGUNA"
           /\ llamada.res.val[k].empresa = "Empresa A"

(* C2: in the GENERAL regime the gap amount follows the tiers: ordinal up to *)
(* 48 the full minimum base; for a woman 49..60 the full minimum, 61..84     *)
(* round(0.8*min, 2), above 84 round(0.5*min, 2); for a man above 48         *)
(* round(0.5*min, 2), the special-conditions flag being always false. With a *)
(* minimum of 1080: 1 -> 1080.00, 49 F -> 1080.00, 70 F -> 864.00,           *)
(* 100 F -> 540.00, 49 M -> 540.00.                                          *)
C2_TramosLaguna ==
    /\ cumple_condiciones_hombre = FALSE
    /\ (EsLaguna /\ regimen_acceso = "GENERAL") =>
          LET n == llamada.arg[2]
              m == obtener_base_minima_anyo(Self, llamada.arg[1].yyyy).val
              mujer == sexo = "FEMENINO"
              esperado ==
                  IF n <= 48 THEN m
                  ELSE IF mujer /\ n <= 60 THEN m
                  ELSE IF mujer /\ n <= 84 THEN 10 * MulDivRound(m, 8, 100)
                  ELSE 10 * MulDivRound(m, 5, 100)
          IN  /\ llamada.res = esperado
              /\ m = 1080000 =>
                    /\ n = 1 => llamada.res = 1080000
                    /\ (n = 49 /\ mujer) => llamada.res = 1080000
                    /\ (n = 70 /\ mujer) => llamada.res = 864000
                    /\ (n = 100 /\ mujer) => llamada.res = 540000
                    /\ (n = 49 /\ ~ mujer) => llamada.res = 540000

(* the 70th gap of a woman in the GENERAL regime with a minimum base of 1080 *)
C2_Witness ==
    /\ EsLaguna
    /\ regimen_acceso = "GENERAL"
    /\ sexo = "FEMENINO"
    /\ llamada.arg[2] = 70
    /\ llamada.arg[1].yyyy = 2025
    /\ llamada.res = 864000

(* C3: in the AUTONOMO regime every imputed month of every window is 0.00,  *)
(* whatever its ordinal and the sex, and the walk and the gap rule return   *)
(* even with an empty cap table: the table is not consulted.                *)
C3_LagunaAutonomo ==
    regimen_acceso = "AUTONOMO" =>
        /\ llamada.op \in {"obtener_bases_periodo_computo", "calcular_base_laguna"}
              => llamada.ok
        /\ llamada.op = "calcular_base_laguna" => llamada.res = 0
        /\ \A w \in Recorridos :
               \A i \in 1..Len(w.bases) :
                   (EsHueco(w, i) \/ w.bases[i].empresa = "LAGUNA") => w.bases[i].base = 0

(* a self-employed woman's window with more than 84 gaps and no cap table *)
C3_Witness ==
    /\ EsVentana
    /\ regimen_acceso = "AUTONOMO"
    /\ sexo = "FEMENINO"
    /\ topes_cotizacion = <<>>
    /\ \E i \in 1..Len(llamada.res.val) :
           /\ llamada.res.ordinales[i] > 84
           /\ llamada.res.val[i].base = 0

(* C4: the gap ordinal belongs to one walk: the first missing month of every *)
(* walk has ordinal 1 and the ordinals go up by one, whatever walks the same *)
(* simulator ran before; so an outcome of procesar_bases_completo is the one *)
(* a simulator that never walked returns.                                    *)
C4_OrdinalPorRecorrido ==
    /\ \A w \in Recorridos :
           \A i \in 1..Len(w.bases) :
               EsHueco(w, i) =>
                   w.ordinales[i] = 1 + Cardinality({j \in 1..(i - 1) : EsHueco(w, j)})
    /\ EsResultado =>
           LET nuevo == procesar_bases_completo(
                            [Self EXCEPT !.contador_lagunas = 0, !.bases_procesadas = <<>>])
           IN  /\ nuevo.ok
               /\ llamada.res.val = nuevo.val

(* an outcome whose prereform walk, run after a reform walk that counted    *)
(* more than 48 gaps, starts its gaps at ordinal 1 again                    *)
C4_Witness ==
    /\ EsResultado
    /\ bases_procesadas # <<>>
    /\ \E i \in 1..Len(llamada.res.reforma.ordinales) :
           llamada.res.reforma.ordinales[i] > 48
    /\ \E i \in 1..Len(llamada.res.prereforma.ordinales) :
           llamada.res.prereforma.ordinales[i] = 1

(* C5: the outcome names the reform scheme exactly when the reform          *)
(* regulatory base is greater than or equal to the legacy one, and the      *)
(* legacy scheme otherwise; a tie goes to the reform.                       *)
C5_EleccionMasFavorable ==
    EsResultado =>
        LET br_reforma == llamada.res.reforma.estadisticas.base_reguladora
            br_prereforma == llamada.res.prereforma.estadisticas.base_reguladora
        IN  /\ llamada.res.val.calculo_elegido \in {"reforma_rd2_2023", "prereforma"}
            /\ llamada.res.val.calculo_elegido = "reforma_rd2_2023"
                   <=> br_reforma >= br_prereforma
            /\ br_reforma = br_prereforma
                   => llamada.res.val.calculo_elegido = "reforma_rd2_2023"

(* a tie of two positive regulatory bases, resolved for the reform *)
C5_Witness ==
    /\ EsResultado
    /\ llamada.res.reforma.estadisticas.base_reguladora
         = llamada.res.prereforma.estadisticas.base_reguladora
    /\ llamada.res.reforma.estadisticas.base_reguladora > 0
    /\ llamada.res.val.calculo_elegido = "reforma_rd2_2023"

(* C6: the comparison block of an outcome carries the statistics of both    *)
(* schemes; the top-level list and statistics, and the simulator's          *)
(* bases_procesadas, are those of the scheme calculo_elegido names; the     *)
(* chosen regulatory base is the maximum of the two.                        *)
C6_ResultadoCompleto ==
    EsResultado =>
        LET v == llamada.res.val
            ref == llamada.res.reforma
            pre == llamada.res.prereforma
            elegido == IF v.calculo_elegido = "reforma_rd2_2023" THEN ref ELSE pre
            br_r == ref.estadisticas.base_reguladora
            br_p == pre.estadisticas.base_reguladora
        IN  /\ v.comparativa_calculos.calculo_reforma_rd2_2023.estadisticas = ref.estadisticas
            /\ v.comparativa_calculos.calculo_prereforma.estadisticas = pre.estadisticas
            /\ v.comparativa_calculos.calculo_reforma_rd2_2023.total_bases = Len(ref.bases)
            /\ v.comparativa_calculos.calculo_prereforma.total_bases = Len(pre.bases)
            /\ v.bases_procesadas = elegido.bases
            /\ v.estadisticas = elegido.estadisticas
            /\ bases_procesadas = elegido.bases
            /\ v.estadisticas.base_reguladora = IF br_r >= br_p THEN br_r ELSE br_p

(* an outcome that names the legacy scheme because its base is strictly higher *)
C6_Witness ==
    /\ EsResultado
    /\ llamada.res.val.calculo_elegido = "prereforma"
    /\ llamada.res.prereforma.estadisticas.base_reguladora
         > llamada.res.reforma.estadisticas.base_reguladora
    /\ llamada.res.val.estadisticas = llamada.res.prereforma.estadisticas

(* C7: for each scheme run the regulatory base is the total of the window   *)
(* divided by the divisor and rounded to 2 decimals, the divisor being the  *)
(* selected parameter entry's for the reform run and 350 for the legacy run.*)
C7_BaseReguladora ==
    \A c \in Calculos :
        /\ c.estadisticas.suma_total = SumaDe(c.bases)
        /\ c.estadisticas.base_reguladora
             = 10 * MulDivRound(c.estadisticas.suma_total, 10, c.divisor)

(* an outcome whose reform run divides by 352.33 and whose two regulatory   *)
(* bases differ                                                             *)
C7_Witness ==
    /\ EsResultado
    /\ parametros_anyo_jubilacion.divisor_base_reguladora = 35233
    /\ llamada.res.reforma.estadisticas.base_reguladora > 0
    /\ llamada.res.reforma.estadisticas.base_reguladora
         # llamada.res.prereforma.estadisticas.base_reguladora

(* C8: the legacy run always has a window of 300 months and the divisor     *)
(* 350, whatever the retirement year and the parameter table; the reform    *)
(* run has the bases_incluidas and the divisor of the parameter entry       *)
(* selected for the retirement year: that year's, or the nearest year's.    *)
C8_ParametrosPorCalculo ==
    /\ estado = "listo" =>
           \E k \in 1..Len(parametros_computo) :
               /\ parametros_computo[k].bases_incluidas
                    = parametros_anyo_jubilacion.bases_incluidas
               /\ parametros_computo[k].divisor_base_reguladora
                    = parametros_anyo_jubilacion.divisor_base_reguladora
               /\ \A j \in 1..Len(parametros_computo) :
                      Abs(parametros_computo[k].anyo - fecha_jubilacion \div 12)
                        <= Abs(parametros_computo[j].anyo - fecha_jubilacion \div 12)
    /\ \A w \in Recorridos :
           Len(w.bases) = IF w.antiguos THEN 300
                          ELSE parametros_anyo_jubilacion.bases_incluidas
    /\ EsResultado =>
           LET comp == llamada.res.val.comparativa_calculos IN
           /\ comp.calculo_prereforma.parametros.bases_incluidas = 300
           /\ comp.calculo_prereforma.parametros.divisor = 35000
           /\ comp.calculo_prereforma.total_bases = 300
           /\ comp.calculo_prereforma.estadisticas.total_bases = 300
           /\ comp.calculo_prereforma.estadisticas.base_reguladora
                = 10 * MulDivRound(comp.calculo_prereforma.estadisticas.suma_total, 10, 35000)
           /\ comp.calculo_reforma_rd2_2023.parametros.bases_incluidas
                = parametros_anyo_jubilacion.bases_incluidas
           /\ comp.calculo_reforma_rd2_2023.parametros.divisor
                = parametros_anyo_jubilacion.divisor_base_reguladora
           /\ comp.calculo_reforma_rd2_2023.total_bases
                = parametros_anyo_jubilacion.bases_incluidas
           /\ comp.calculo_reforma_rd2_2023.estadisticas.base_reguladora
                = 10 * MulDivRound(comp.calculo_reforma_rd2_2023.estadisticas.suma_total, 10,
                                   parametros_anyo_jubilacion.divisor_base_reguladora)

(* a retirement in 2027, served by the 2026 entry (302 months, 352.33): the *)
(* legacy window still holds 300 months                                      *)
C8_Witness ==
    /\ EsVentana
    /\ llamada.arg[1]
    /\ fecha_jubilacion \div 12 = 2027
    /\ parametros_anyo_jubilacion.bases_incluidas = 302
    /\ Len(llamada.res.val) = 300

C10_SinSimulacion ==
    /\ EsSimulacion
    /\ llamada.res = <<>>
    /\ \E i \in 1..Len(bases) :
           12 * bases[i].mes_anyo.yyyy + bases[i].mes_anyo.mm - 1 >= fecha_jubilacion

EsConstruccion == llamada.op = "__init__"

(* the messages of the errors raised by the validation of the input *)
ErroresDeValidacion ==
    { "bases_extraidas debe ser un diccionario",
      "bases_extraidas debe contener la clave 'bases'",
      "bases debe ser una lista",
      "La lista de bases no puede estar vacia",
      "Formato de fecha invalido",
      "Regimen invalido",
      "Error procesando base" }

C13_SexoInvalidoRechazado ==
    (EsConstruccion /\ upper(llamada.arg[4]) \notin {"MASCULINO", "FEMENINO"})
        => (~ llamada.ok /\ estado = "error")

(* C14: a call of procesar_bases_completo on a simulator one of whose two   *)
(* scheme runs raises returns no outcome at all, not even that of the run   *)
(* that succeeded, and leaves bases_procesadas as it was before the call.   *)
C14_SinResultadoParcial ==
    [][(/\ llamada'.op = "procesar_bases_completo"
        /\ \/ ~ procesar_calculo_reforma(Self).ok
           \/ ~ procesar_calculo_prereforma(Self).ok)
       => /\ ~ llamada'.ok
          /\ llamada'.res = <<>>
          /\ bases_procesadas' = bases_procesadas]_vars

(* a call that failed in the prereform run, on the gaps of its window,      *)
(* after a reform run of one month that had succeeded                       *)
C14_Witness ==
    /\ llamada.op = "procesar_bases_completo"
    /\ ~ llamada.ok
    /\ procesar_calculo_reforma(Self).ok
    /\ procesar_calculo_reforma(Self).estadisticas.base_reguladora > 0
    /\ ~ procesar_calculo_prereforma(Self).ok
    /\ bases_procesadas = <<>>

(* the other failure of C14: the reform run divides by 0 *)
C14_DivisorCero ==
    /\ llamada.op = "procesar_bases_completo"
    /\ ~ llamada.ok
    /\ parametros_anyo_jubilacion.divisor_base_reguladora = 0
    /\ procesar_calculo_prereforma(Self).ok

(* the input records of the constructor call a state shows, those of month  *)
(* k, and the records the simulator holds for month k                       *)
Entradas == llamada.arg[1].bases.items

EntradasDe(k) == SelectSeq(Entradas, LAMBDA r : r.mes_anyo = k)

BasesDe(k) == SelectSeq(bases, LAMBDA b : b.mes_anyo = k)

(* the caps of a year the cap table has *)
TopesDe(anyo) ==
    topes_cotizacion[CHOOSE i \in 1..Len(topes_cotizacion) : topes_cotizacion[i].anyo = anyo]

(* C15: for every month with two or more input records the simulator holds *)
(* one record whose amount is the gross sum clamped to the year's minimum   *)
(* and maximum monthly base: the minimum with tag "minimo" when gross < min, *)
(* the maximum with tag "maximo" when gross > max, the gross sum with tag   *)
(* "ninguno" otherwise, also when gross equals min or max. With min 1080    *)
(* and max 4495: 2000 gives 2000.00 "ninguno", 900 gives 1080.00 "minimo",  *)
(* 5000 gives 4495.00 "maximo".                                             *)
C15_AgregacionConTopes ==
    (EsConstruccion /\ llamada.ok) =>
        \A k \in {Entradas[i].mes_anyo : i \in 1..Len(Entradas)} :
            Len(EntradasDe(k)) >= 2 =>
                LET bruta == SumaDe(EntradasDe(k))
                    min == TopesDe(k.yyyy).base_minima_mensual
                    max == TopesDe(k.yyyy).base_maxima_mensual
                    b == BasesDe(k)[1]
                    meta == b.metadatos_pluriactividad[1]
                IN  /\ Len(BasesDe(k)) = 1
                    /\ meta.base_bruta = bruta
                    /\ bruta < min => (b.base = min /\ meta.tope_aplicado = "minimo")
                    /\ bruta > max => (b.base = max /\ meta.tope_aplicado = "maximo")
                    /\ (min <= bruta /\ bruta <= max)
                           => (b.base = bruta /\ meta.tope_aplicado = "ninguno")
                    /\ (min = 1080000 /\ max = 4495000) =>
                           /\ bruta = 2000000
                                  => (b.base = 2000000 /\ meta.tope_aplicado = "ninguno")
                           /\ bruta = 900000
                                  => (b.base = 1080000 /\ meta.tope_aplicado = "minimo")
                           /\ bruta = 5000000
                                  => (b.base = 4495000 /\ meta.tope_aplicado = "maximo")

(* two records of 01/2025 that add up to 5000, held as 4495.00 "maximo" *)
C15_Witness ==
    /\ EsConstruccion
    /\ llamada.ok
    /\ Len(Entradas) = 2
    /\ Entradas[1].base = 2500000
    /\ Entradas[2].base = 2500000
    /\ Len(bases) = 1
    /\ bases[1].base = 4495000
    /\ bases[1].metadatos_pluriactividad # None
    /\ bases[1].metadatos_pluriactividad[1].tope_aplicado = "maximo"

(* the boundary of C15: two records that add up to the minimum, 1080, are   *)
(* not tagged                                                               *)
C15_EnElMinimo ==
    /\ EsConstruccion
    /\ llamada.ok
    /\ Len(bases) = 1
    /\ bases[1].metadatos_pluriactividad # None
    /\ bases[1].metadatos_pluriactividad[1].base_bruta = 1080000
    /\ bases[1].metadatos_pluriactividad[1].tope_aplicado = "ninguno"

(* C16: a month with exactly one input record is held as that record: its   *)
(* month, amount, employer and regime unchanged, no cap applied even when   *)
(* the amount lies below the year's minimum or above its maximum, and no    *)
(* multi-employer metadata.                                                 *)
C16_BaseUnicaSinCambios ==
    (EsConstruccion /\ llamada.ok) =>
        \A k \in {Entradas[i].mes_anyo : i \in 1..Len(Entradas)} :
            Len(EntradasDe(k)) = 1 =>
                /\ Len(BasesDe(k)) = 1
                /\ BasesDe(k)[1].mes_anyo = EntradasDe(k)[1].mes_anyo
                /\ BasesDe(k)[1].base = EntradasDe(k)[1].base
                /\ BasesDe(k)[1].empresa = EntradasDe(k)[1].empresa
                /\ BasesDe(k)[1].regimen = EntradasDe(k)[1].regimen
                /\ BasesDe(k)[1].metadatos_pluriactividad = None

(* a single record of 5000 in a year whose maximum is 4495, next to a       *)
(* single record of another month                                           *)
C16_Witness ==
    /\ EsConstruccion
    /\ llamada.ok
    /\ topes_cotizacion # <<>>
    /\ Len(Entradas) = 2
    /\ Len(bases) = 2
    /\ \E i \in 1..2 :
           /\ bases[i].base = 5000000
           /\ bases[i].base > TopesDe(bases[i].mes_anyo.yyyy).base_maxima_mensual
           /\ bases[i].empresa = "Empresa C"
           /\ bases[i].metadatos_pluriactividad = None

(* the other side of C16: a single record of 450 below the minimum of 1080  *)
C16_BajoElMinimo ==
    /\ EsConstruccion
    /\ llamada.ok
    /\ Len(bases) = 1
    /\ bases[1].base = 450000
    /\ bases[1].metadatos_pluriactividad = None

(* C17: añadir_periodo tags a record "no_revalorizado" exactly when its     *)
(* month is not earlier than 24 months before the retirement month, and     *)
(* "revalorizado" otherwise; so of a window of N months, latest first, the  *)
(* first min(N, 24) records are "no_revalorizado" and the other             *)
(* max(N - 24, 0) are "revalorizado".                                       *)
C17_PeriodoSegunFecha ==
    llamada.op = "anyadir_periodo" =>
        LET entrada == llamada.arg[1]
            salida == llamada.res
            N == Len(entrada)
            M == IF N < 24 THEN N ELSE 24
        IN  /\ Len(salida) = N
            /\ \A i \in 1..N :
                   /\ salida[i].periodo \in {"no_revalorizado", "revalorizado"}
                   /\ salida[i].periodo = "no_revalorizado"
                          <=> MesDe(entrada[i].mes_anyo) >= fecha_jubilacion - 24
                   /\ salida[i].periodo = "no_revalorizado" <=> i <= M
            /\ Cardinality({i \in 1..N : salida[i].periodo = "no_revalorizado"}) = M
            /\ Cardinality({i \in 1..N : salida[i].periodo = "revalorizado"}) = N - M

(* a window of 25 months: 24 "no_revalorizado" and the month 25 months      *)
(* before retirement "revalorizado"                                         *)
C17_Witness ==
    /\ llamada.op = "anyadir_periodo"
    /\ Len(llamada.res) = 25
    /\ llamada.res[24].periodo = "no_revalorizado"
    /\ MesDe(llamada.res[24].mes_anyo) = fecha_jubilacion - 24
    /\ llamada.res[25].periodo = "revalorizado"

(* the short window of C17: 23 months, all "no_revalorizado" *)
C17_VentanaCorta ==
    /\ llamada.op = "anyadir_periodo"
    /\ Len(llamada.res) = 23
    /\ \A i \in 1..23 : llamada.res[i].periodo = "no_revalorizado"

(* C18: revalorizar_bases gives every "revalorizado" record its amount      *)
(* before revaluation (base_original) and the index applied; with an index  *)
(* tabulated for the month the amount becomes round(original * index, 2),   *)
(* so 1000.00 with index 1.035 becomes 1035.00; with no index tabulated the *)
(* amount is unchanged and the index recorded is 1.0; a "no_revalorizado"   *)
(* record is returned as it was, without base_original or index.            *)
C18_Revalorizacion ==
    llamada.op = "revalorizar_bases" =>
        LET entrada == llamada.arg[1]
            salida == llamada.res
            indices == indices_revalorizacion
        IN  /\ Len(salida) = Len(entrada)
            /\ \A i \in 1..Len(entrada) :
                   LET e == entrada[i]
                       r == salida[i]
                   IN  /\ r.mes_anyo = e.mes_anyo
                       /\ r.periodo = e.periodo
                       /\ e.periodo = "revalorizado" =>
                              /\ r.base_original = Some(e.base)
                              /\ r.indice_revalorizacion =
                                     Some(IF e.mes_anyo \in DOMAIN indices
                                          THEN indices[e.mes_anyo] ELSE 1000)
                              /\ e.mes_anyo \in DOMAIN indices =>
                                     /\ r.base = 10 * MulDivRound(e.base, indices[e.mes_anyo], 10000)
                                     /\ (e.base = 1000000 /\ indices[e.mes_anyo] = 1035)
                                            => r.base = 1035000
                              /\ e.mes_anyo \notin DOMAIN indices => r.base = e.base
                       /\ e.periodo = "no_revalorizado" =>
                              /\ r = e
                              /\ r.base_original = None
                              /\ r.indice_revalorizacion = None

(* one call that revalues 1000.00 by 1.035, meets a month with no index and *)
(* leaves the last 24 months alone                                          *)
C18_Witness ==
    /\ llamada.op = "revalorizar_bases"
    /\ \E i \in 1..Len(llamada.res) :
           /\ llamada.arg[1][i].base = 1000000
           /\ llamada.res[i].base = 1035000
           /\ llamada.res[i].indice_revalorizacion = Some(1035)
    /\ \E i \in 1..Len(llamada.res) :
           /\ llamada.res[i].periodo = "revalorizado"
           /\ llamada.res[i].mes_anyo \notin DOMAIN indices_revalorizacion
           /\ llamada.res[i].base > 0
    /\ llamada.res[1].periodo = "no_revalorizado"

(* a revalued amount that had to be rounded to the cent *)
C18_Redondeo ==
    /\ llamada.op = "revalorizar_bases"
    /\ \E i \in 1..Len(llamada.res) :
           /\ llamada.res[i].indice_revalorizacion # None
           /\ (llamada.arg[1][i].base * (llamada.res[i].indice_revalorizacion[1] % 10)) % 10000 # 0

(* the three reference tables have at least one entry each *)
TablasNoVacias ==
    /\ parametros_computo # <<>>
    /\ topes_cotizacion # <<>>
    /\ DOMAIN indices_revalorizacion # {}

(* the entry e of the table is one of a year nearest to anyo *)
EsDeAnyoMasCercano(tabla, e, anyo) ==
    \E i \in 1..Len(tabla) :
        /\ tabla[i] = e
        /\ \A j \in 1..Len(tabla) : Abs(tabla[i].anyo - anyo) <= Abs(tabla[j].anyo - anyo)

C19_ConstruccionConAusencias ==
    /\ llamada.op = "__init__"
    /\ llamada.ok
    /\ TablasNoVacias
    /\ ~ contains(parametros_computo, year(fecha_jubilacion))

(* the years of a table *)
AnyosDe(tabla) == {tabla[i].anyo : i \in 1..Len(tabla)}

(* anyo_elegido is the requested year when the table has it and otherwise a *)
(* year of the table at minimal distance of the requested one               *)
EsAnyoPedidoOMasCercano(tabla, anyo_elegido, anyo) ==
    /\ anyo_elegido \in AnyosDe(tabla)
    /\ anyo \in AnyosDe(tabla) => anyo_elegido = anyo
    /\ \A a \in AnyosDe(tabla) : Abs(anyo_elegido - anyo) <= Abs(a - anyo)

(* C20: get_parametros_computo returns the parameters of the retirement     *)
(* year and _obtener_topes_año the caps of the requested year when the      *)
(* table has the year, and otherwise those of a year of the table whose     *)
(* absolute distance to it is minimal.                                      *)
C20_AnyoMasCercano ==
    /\ llamada.op = "get_parametros_computo" =>
           /\ llamada.ok
           /\ \E i \in 1..Len(parametros_computo) :
                  LET e == parametros_computo[i] IN
                  /\ EsAnyoPedidoOMasCercano(parametros_computo, e.anyo, year(fecha_jubilacion))
                  /\ llamada.res = [bases_incluidas |-> e.bases_incluidas,
                                    periodo_meses |-> e.periodo_meses,
                                    divisor_base_reguladora |-> e.divisor_base_reguladora]
    /\ llamada.op = "obtener_topes_anyo" =>
           /\ llamada.ok
           /\ \E i \in 1..Len(topes_cotizacion) :
                  /\ EsAnyoPedidoOMasCercano(topes_cotizacion, topes_cotizacion[i].anyo,
                                             llamada.arg[1])
                  /\ llamada.res = topes_cotizacion[i]

(* a lookup of caps for a year between two years of the table and nearer to *)
(* the later one                                                            *)
C20_Witness ==
    /\ llamada.op = "obtener_topes_anyo"
    /\ llamada.arg[1] = 2028
    /\ AnyosDe(topes_cotizacion) = {2020, 2024, 2030}
    /\ llamada.res.anyo = 2030

(* a lookup of parameters for a retirement year at the same distance of two *)
(* years of the table                                                       *)
C20_Empate ==
    /\ llamada.op = "get_parametros_computo"
    /\ year(fecha_jubilacion) = 2027
    /\ AnyosDe(parametros_computo) = {2020, 2024, 2030}
    /\ llamada.res.bases_incluidas = 300

(* a lookup of parameters for a retirement year the table has *)
C20_AnyoPresente ==
    /\ llamada.op = "get_parametros_computo"
    /\ year(fecha_jubilacion) = 2020
    /\ AnyosDe(parametros_computo) = {2020, 2024, 2030}
    /\ llamada.res.bases_incluidas = 264

(* C21: no call changes the parameter, index or cap tables, and once the    *)
(* simulator is built no call changes self.bases.                           *)
C21_TablasYBasesIntactas ==
    [][/\ parametros_computo' = parametros_computo
       /\ indices_revalorizacion' = indices_revalorizacion
       /\ topes_cotizacion' = topes_cotizacion
       /\ estado = "listo" => bases' = bases]_vars

(* statistics computed after procesar_bases_completo, a walk, a             *)
(* classification and a revaluation, with the tables and the list still     *)
(* those of the construction                                                *)
C21_Witness ==
    /\ llamada.op = "calcular_estadisticas_para_bases"
    /\ llamada.ok
    /\ bases_procesadas # <<>>
    /\ <<parametros_computo, indices_revalorizacion, topes_cotizacion>>
           \in ConfiguracionesPeriodos
    /\ \E be \in ListasPeriodos :
           bases = procesar_bases_extraidas(Self, Dict(Lista(be))).val

(* no two records of the list are of the same calendar month *)
UnRegistroPorMes(lista) ==
    \A i, j \in 1..Len(lista) :
        i # j => strptime(lista[i].mes_anyo) # strptime(lista[j].mes_anyo)

(* C22: once a simulator is built, self.bases holds at most one record per  *)
(* calendar month, and so does self.bases followed by the projected         *)
(* records, the list the window builder indexes.                            *)
C22_UnRegistroPorMes ==
    estado = "listo" =>
        /\ UnRegistroPorMes(bases)
        /\ UnRegistroPorMes(bases \o simular_periodo_futuro(Self))

(* the minimum bases and the indices of the tables are not negative *)
TablasNoNegativas ==
    /\ \A i \in 1..Len(topes_cotizacion) : topes_cotizacion[i].base_minima_mensual >= 0
    /\ \A k \in DOMAIN indices_revalorizacion : indices_revalorizacion[k] >= 0

(* the amounts of a list of records are not negative *)
ImportesNoNegativos(lista) == \A i \in 1..Len(lista) : lista[i].base >= 0

(* the amounts and the sums of the run of one scheme are not negative *)
CalculoNoNegativo(c) ==
    /\ ImportesNoNegativos(c.bases)
    /\ \A i \in 1..Len(c.bases) :
           c.bases[i].base_original # None => c.bases[i].base_original[1] >= 0
    /\ c.estadisticas.suma_periodo_revalorizado >= 0
    /\ c.estadisticas.suma_periodo_no_revalorizado >= 0
    /\ c.estadisticas.suma_total >= 0
    /\ c.estadisticas.base_reguladora >= 0

BasesDelSemestre ==
    SelectSeq(bases, LAMBDA b : /\ MesDe(b.mes_anyo) >= UltimoMes - 5
                                /\ MesDe(b.mes_anyo) <= UltimoMes)

(* importe is total / n rounded to the cent, a half going to the even cent *)
EsMediaRedondeada(importe, total, n) ==
    /\ importe % 10 = 0
    /\ 2 * Abs(n * importe - total) <= 10 * n
    /\ 2 * Abs(n * importe - total) = 10 * n => (importe \div 10) % 2 = 0

(* C24: every projected record carries the mean, rounded to the cent, of    *)
(* the amounts of the records of self.bases whose month is one of the six   *)
(* months ending at the latest record (between 1 and 6 records), the        *)
(* employer "SIMULADA" and the access regime.                               *)
C24_PromedioSeisMeses ==
    EsSimulacion =>
        LET recientes == BasesDelSemestre
            sim == llamada.res
        IN  /\ Len(recientes) \in 1..6
            /\ \A i \in 1..Len(sim) :
                   /\ EsMediaRedondeada(sim[i].base, sum(lista_de_bases(recientes)),
                                        Len(recientes))
                   /\ sim[i].empresa = "SIMULADA"
                   /\ sim[i].regimen = regimen_acceso

(* a projection from seven consecutive months: the mean is of the six       *)
(* latest, 1375.388... rounded to 1375.39, and the regime is the access     *)
(* regime although records of the span are of the other regime              *)
C24_Witness ==
    /\ EsSimulacion
    /\ Len(bases) = 7
    /\ Len(BasesDelSemestre) = 6
    /\ llamada.res # <<>>
    /\ llamada.res[1].base = 1375390
    /\ llamada.res[1].regimen = "GENERAL"
    /\ \E i \in 1..6 : bases[i].regimen = "AUTONOMO"

(* a projection whose mean is the amount of the latest record alone *)
C24_UnaSolaBase ==
    /\ EsSimulacion
    /\ Len(bases) = 2
    /\ Len(BasesDelSemestre) = 1
    /\ llamada.res # <<>>
    /\ llamada.res[1].base = 1500500

(* self.bases followed by the projected records: the records the window     *)
(* builder indexes                                                          *)
BasesTodas == bases \o simular_periodo_futuro(Self)

(* the positions in todas of the records of the calendar month m *)
PosicionesDelMes(todas, m) == {j \in 1..Len(todas) : MesDe(todas[j].mes_anyo) = m}

(* the window w, with the ordinals given to its months, over the records    *)
(* todas: a month with a record carries one of its records, a month without *)
(* carries a gap record, and the gaps are as many as the months without     *)
LagunaSoloSinRegistro(w, ordinales, todas) ==
    /\ \A i \in 1..Len(w) :
           \A ps \in {PosicionesDelMes(todas, fecha_jubilacion - i)} :
               IF ps # {}
               THEN /\ \E j \in ps : w[i] = todas[j]
                    /\ ordinales[i] = 0
               ELSE /\ w[i].empresa = "LAGUNA"
                    /\ w[i].regimen = regimen_acceso
                    /\ ordinales[i] > 0
                    /\ w[i].base = calcular_base_laguna(Self, strftime(fecha_jubilacion - i),
                                                        ordinales[i]).val
    /\ Cardinality({i \in 1..Len(w) : ordinales[i] > 0})
           = Len(w) - Cardinality({i \in 1..Len(w) :
                                      PosicionesDelMes(todas, fecha_jubilacion - i) # {}})

(* C25: in a window, the month i months before retirement carries a record  *)
(* of self.bases or a projected record of that calendar month when there is *)
(* one, and a gap record ("LAGUNA", the access regime, the amount of the    *)
(* gap rule) only when there is none; the gaps are as many as the months of *)
(* the window without a record.                                             *)
C25_LagunaSoloSinRegistro ==
    (llamada.op = "obtener_bases_periodo_computo" /\ llamada.ok) =>
        \A todas \in {BasesTodas} :
            LagunaSoloSinRegistro(llamada.res.val, llamada.res.ordinales, todas)

(* C26: for every month with two or more input records, the regime of the   *)
(* record the simulator holds is the regime of an input record of the month *)
(* that no other record of the month exceeds, its employer is               *)
(* "PLURIACTIVIDAD_<number of records>_EMPRESAS", and its metadata keep     *)
(* the input records, their employers in input order and the gross sum.     *)
C26_RegimenEtiquetaYProcedencia ==
    (EsConstruccion /\ llamada.ok) =>
        \A k \in {Entradas[i].mes_anyo : i \in 1..Len(Entradas)} :
            \A es \in {EntradasDe(k)} :
                Len(es) >= 2 =>
                    \A b \in {BasesDe(k)[1]} :
                        /\ \E i \in 1..Len(es) :
                               /\ \A j \in 1..Len(es) : es[i].base >= es[j].base
                               /\ b.regimen = es[i].regimen
                        /\ b.empresa = "PLURIACTIVIDAD_" \o ToString(Len(es)) \o "_EMPRESAS"
                        /\ b.metadatos_pluriactividad # None
                        /\ b.metadatos_pluriactividad[1].es_pluriactividad
                        /\ b.metadatos_pluriactividad[1].bases_individuales = es
                        /\ b.metadatos_pluriactividad[1].empresas_detalle
                               = [i \in 1..Len(es) |-> es[i].empresa]
                        /\ b.metadatos_pluriactividad[1].base_bruta = SumaDe(es)

(* 450 of the general regime before 540 of the self-employed regime in      *)
(* 01/2025: the record held is self-employed, of "PLURIACTIVIDAD_2_EMPRESAS" *)
C26_Witness ==
    /\ EsConstruccion
    /\ llamada.ok
    /\ Len(Entradas) = 2
    /\ Entradas[1].base = 450000
    /\ Entradas[1].regimen = "GENERAL"
    /\ Entradas[2].base = 540000
    /\ Entradas[2].regimen = "AUTONOMO"
    /\ Len(bases) = 1
    /\ bases[1].regimen = "AUTONOMO"
    /\ bases[1].empresa = "PLURIACTIVIDAD_2_EMPRESAS"
    /\ bases[1].metadatos_pluriactividad # None
    /\ bases[1].metadatos_pluriactividad[1].base_bruta = 990000
    /\ bases[1].metadatos_pluriactividad[1].empresas_detalle = << "Empresa A", "Empresa B" >>

(* the percentage of the minimum base base_min that the gap amount base is: *)
(* 100, 80 or 50, rounded to cents as the gap rule rounds; 0 when it is     *)
(* none of them                                                             *)
PorcentajeDe(base, base_min) ==
    IF base = base_min THEN 100
    ELSE IF base = 10 * MulDivRound(base_min, 8, 100) THEN 80
    ELSE IF base = 10 * MulDivRound(base_min, 5, 100) THEN 50
    ELSE 0

(* the percentage of each month of the window w as the walk returns it:     *)
(* that of its gap amount in the GENERAL regime; 0 for a month with a       *)
(* record, in the AUTONOMO regime, whose gaps are 0.00, and in the windows  *)
(* of an outcome, whose amounts are revalued                                *)
PorcentajesDe(w) ==
    [i \in 1..Len(w.bases) |->
        IF EsVentana /\ EsHueco(w, i) /\ regimen_acceso = "GENERAL"
        THEN PorcentajeDe(w.bases[i].base,
                          obtener_base_minima_anyo(Self, w.bases[i].mes_anyo.yyyy).val)
        ELSE 0]

(* the gaps huecos of the window w, whose percentages are pcts: the k-th    *)
(* from the retirement month has ordinal k; in a window as the walk returns *)
(* it, of a man in the GENERAL regime the first 48 are at 100% and the      *)
(* others at 50%, in the GENERAL regime no gap has a higher percentage than *)
(* a gap nearer to the retirement month, and in the AUTONOMO regime every   *)
(* gap is 0.00                                                              *)
OrdinalesHaciaAtras(w, huecos, pcts) ==
    \A i \in huecos :
        \A k \in {Cardinality({j \in huecos : j <= i})} :
            /\ w.ordinales[i] = k
            /\ (EsVentana /\ regimen_acceso = "GENERAL") =>
                   /\ pcts[i] > 0
                   /\ \A j \in huecos : j < i => pcts[j] >= pcts[i]
            /\ (EsVentana /\ regimen_acceso = "GENERAL" /\ sexo = "MASCULINO") =>
                   pcts[i] = IF k <= 48 THEN 100 ELSE 50
            /\ (EsVentana /\ regimen_acceso = "AUTONOMO") => w.bases[i].base = 0

(* C27: within one window the k-th most recent month without a record in    *)
(* the walk's dictionary receives ordinal k; for a man in the GENERAL       *)
(* regime exactly the 48 most recent gaps are imputed at 100% of their      *)
(* year's minimum base and every older gap at 50%; and no gap receives a    *)
(* higher percentage of the minimum base than a more recent gap of the same *)
(* window.                                                                  *)
C27_OrdinalesHaciaAtras ==
    \A w \in Recorridos :
        \A huecos \in {{i \in 1..Len(w.bases) : EsHueco(w, i)}} :
            \A pcts \in {PorcentajesDe(w)} :
                OrdinalesHaciaAtras(w, huecos, pcts)

(* a man's window in the GENERAL regime that starts with a record: the 48th *)
(* gap at 100% and the 49th, the month before, at 50% of the minimum base   *)
(* of their years                                                           *)
C27_Witness ==
    /\ EsVentana
    /\ regimen_acceso = "GENERAL"
    /\ sexo = "MASCULINO"
    /\ llamada.res.ordinales[1] = 0
    /\ \E i \in 1..(Len(llamada.res.val) - 1) :
           /\ llamada.res.ordinales[i] = 48
           /\ llamada.res.ordinales[i + 1] = 49
           /\ llamada.res.val[i].base
                  = obtener_base_minima_anyo(Self, llamada.res.val[i].mes_anyo.yyyy).val
           /\ llamada.res.val[i + 1].base = 10 * MulDivRound(
                  obtener_base_minima_anyo(Self, llamada.res.val[i + 1].mes_anyo.yyyy).val,
                  5, 100)

(* a woman's window in the GENERAL regime that goes down through the three  *)
(* percentages                                                              *)
C27_TresTramos ==
    /\ EsVentana
    /\ regimen_acceso = "GENERAL"
    /\ sexo = "FEMENINO"
    /\ \A pcts \in {PorcentajesDe([bases |-> llamada.res.val, ordinales |-> llamada.res.ordinales])} :
           /\ \E i \in 1..Len(pcts) : llamada.res.ordinales[i] = 60 /\ pcts[i] = 100
           /\ \E i \in 1..Len(pcts) : llamada.res.ordinales[i] = 61 /\ pcts[i] = 80
           /\ \E i \in 1..Len(pcts) : llamada.res.ordinales[i] = 85 /\ pcts[i] = 50

(* the runs r and p of the reform and the prereform scheme agree on their n *)
(* most recent months, and one of them has no more than those               *)
CalculosDeAcuerdo(r, p, n) ==
    /\ Len(r.bases) >= n
    /\ Len(p.bases) >= n
    /\ Len(r.bases) = n \/ Len(p.bases) = n
    /\ \A i \in 1..n :
           /\ r.bases[i] = p.bases[i]
           /\ r.ordinales[i] = p.ordinales[i]
           /\ MesDe(r.bases[i].mes_anyo) = fecha_jubilacion - i

(* C28: in an outcome of procesar_bases_completo the reform and the         *)
(* prereform run agree on each of the min(N_reform, 300) most recent        *)
(* months: the same month, employer, regime, multi-employer metadata, gap   *)
(* ordinal, classification, amount before revaluation, index and amount     *)
(* after it; the longer window has only older months more; and the          *)
(* statistics of each run are those of its own list under its own divisor.  *)
C28_CalculosDeAcuerdo ==
    EsResultado =>
        \A r \in {llamada.res.reforma} :
            \A p \in {llamada.res.prereforma} :
                /\ Len(r.bases) = parametros_anyo_jubilacion.bases_incluidas
                /\ Len(p.bases) = BasesPrereforma
                /\ CalculosDeAcuerdo(r, p, IF Len(r.bases) < BasesPrereforma
                                           THEN Len(r.bases) ELSE BasesPrereforma)
                /\ r.estadisticas
                       = calcular_estadisticas_para_bases(r.bases, divisor_reforma(Self)).val
                /\ p.estadisticas
                       = calcular_estadisticas_para_bases(p.bases, divisor_prereforma(Self)).val
                /\ (Len(r.bases) = Len(p.bases)
                        /\ divisor_reforma(Self) = divisor_prereforma(Self))
                       => r.estadisticas = p.estadisticas

(* an outcome whose reform window has 302 months and whose prereform window *)
(* 300, sharing a projected month, an extracted record and a gap beyond the *)
(* 48th revalued by its index                                               *)
C28_Witness ==
    /\ EsResultado
    /\ regimen_acceso = "GENERAL"
    /\ Len(llamada.res.reforma.bases) = 302
    /\ Len(llamada.res.prereforma.bases) = 300
    /\ llamada.res.prereforma.bases[1].empresa = "SIMULADA"
    /\ \E i \in 1..300 :
           /\ llamada.res.prereforma.bases[i].empresa = "Empresa A"
           /\ llamada.res.reforma.bases[i] = llamada.res.prereforma.bases[i]
    /\ \E i \in 1..300 :
           /\ llamada.res.prereforma.ordinales[i] > 48
           /\ llamada.res.prereforma.bases[i].empresa = "LAGUNA"
           /\ llamada.res.prereforma.bases[i].periodo = "revalorizado"
           /\ llamada.res.prereforma.bases[i].base_original # None
           /\ llamada.res.prereforma.bases[i].base_original[1]
                  # llamada.res.prereforma.bases[i].base
           /\ llamada.res.reforma.bases[i] = llamada.res.prereforma.bases[i]
    /\ llamada.res.reforma.estadisticas.base_reguladora
           # llamada.res.prereforma.estadisticas.base_reguladora

(* a request has been answered *)
EsRespuesta == peticion.etapa = "fin"

(* C29: a /simulate request whose list of bases is empty, and a /process    *)
(* request whose PDF yields no bases, is answered with status 400, not 500. *)
C29_SinBasesEs400 ==
    (/\ EsRespuesta
     /\ \/ /\ peticion.ruta = "/simulate"
           /\ peticion.excepcion # "RequestValidationError"
           /\ peticion.bases_extraidas = <<>>
        \/ /\ peticion.ruta = "/process"
           /\ peticion.temp_file_path # None
           /\ peticion.excepcion = "HTTPException"
           /\ peticion.resultado_extraccion = <<>>)
        => peticion.status_code = 400

(* C30: when /extract or /process has answered, the temporary copy of the   *)
(* upload it created is no longer on disk, on every path.                   *)
C30_TemporalBorrado ==
    (EsRespuesta /\ peticion.temp_file # None)
        => peticion.temp_file[1] \notin archivos_temporales

====
